---- MODULE Spec2Model ----
(***************************************************************************)
(* The idea generation engine of idea_creater:                             *)
(*   src/src/generator/idea_generator.py  (class IdeaGenerator)            *)
(*                                                                         *)
(* Scores are Python floats in the source.  Here a score is an exact       *)
(* fixed-point number: an InnovationPoint score s stands for s/PointScale, *)
(* a GeneratedIdea score v stands for v/IdeaUnit, with IdeaUnit chosen so  *)
(* that every product and mean the code forms over a pair is an integer.   *)
(*                                                                         *)
(* Python values that the code copies without looking at their type (the   *)
(* fields of a parsed payload) are tagged records: Str, Num, List, None.   *)
(* A string is the sequence of the pieces it is concatenated from.         *)
(***************************************************************************)
EXTENDS Integers, Sequences, FiniteSets, TLC

\* ------------------------------------------------------------------ bounds

\* papers (ExtractedInnovations) a caller passes in one call
MaxPapers == 2
\* innovation points over all the papers of one call
MaxPoints == 3
\* elements of the generated_ideas array of a provider's reply
MaxAiIdeas == 2

\* ------------------------------------------------------- program constants

\* combinations[:10], idea_generator.py:126
INTRA_LIMIT == 10
\* categories[cat][:3], idea_generator.py:137
CROSS_LIMIT == 3
\* ideas[:20], idea_generator.py:363
RESULT_LIMIT == 20
\* desc[:100], idea_generator.py:173
DESC_PREFIX == 100

\* one InnovationPoint score unit is 1/PointScale
PointScale == 100
\* one GeneratedIdea score unit is 1/IdeaUnit
IdeaUnit == 4 * PointScale * PointScale

\* ------------------------------------------------------------ Python values

None == [t |-> "None"]
Str(pieces) == [t |-> "str", s |-> pieces]
Num(n) == [t |-> "num", n |-> n]
List(l) == [t |-> "list", l |-> l]

\* seq[:n]
Take(seq, n) == SubSeq(seq, 1, IF Len(seq) < n THEN Len(seq) ELSE n)

RECURSIVE SumOver(_, _)
\* sum(f(x) for x in seq), f given as a function over the elements
SumOver(seq, f) ==
    IF seq = <<>> THEN 0 ELSE f[Head(seq)] + SumOver(Tail(seq), f)

RECURSIVE Flatten(_)
\* the concatenation of a sequence of sequences, in order
Flatten(seqs) ==
    IF seqs = <<>> THEN <<>> ELSE Head(seqs) \o Flatten(Tail(seqs))

\* the elements of a sequence
Range(seq) == {seq[i] : i \in 1..Len(seq)}

\* --------------------------------------------------------- InnovationPoint

\* The points of the spec's scenario (A, B in X; C in Y) and a fourth, D,
\* that scores like A.
PointA ==
    [title |-> "A", description |-> <<"a", "1">>, category |-> "X",
     impact |-> "iA", methodology |-> "mA", novelty_score |-> 80, confidence |-> 90]
PointB ==
    [title |-> "B", description |-> <<"b", "1">>, category |-> "X",
     impact |-> "iB", methodology |-> "mB", novelty_score |-> 90, confidence |-> 85]
PointC ==
    [title |-> "C", description |-> <<"c", "1">>, category |-> "Y",
     impact |-> "iC", methodology |-> "mC", novelty_score |-> 70, confidence |-> 80]
PointD ==
    [title |-> "D", description |-> <<"d", "1">>, category |-> "X",
     impact |-> "iD", methodology |-> "mD", novelty_score |-> 80, confidence |-> 90]
PointPool == {PointA, PointB, PointC, PointD}

\* ExtractedInnovations: one paper's bundle
Paper(id, innovations) ==
    [paper_title |-> "paper", paper_id |-> id, innovations |-> innovations,
     summary |-> "summary"]

\* ----------------------------------------------- _create_combination_idea

\* mutant: the novelty of a pair is capped at 1
create_combination_idea_capped(innovations, combination_type) ==
    LET n == Len(innovations)
        sum_novelty == SumOver(innovations, [p \in Range(innovations) |-> p.novelty_score])
        sum_confidence == SumOver(innovations, [p \in Range(innovations) |-> p.confidence])
        titles == [i \in 1..n |-> innovations[i].title]
        lines == [i \in 1..n |->
                     <<"- ", titles[i], ": ">>
                         \o Take(innovations[i].description, DESC_PREFIX) \o <<"...">>]
    IN  IF n < 2
        THEN None
        ELSE [title |-> Str(<<"Combined: ">> \o
                           (IF n >= 2 THEN <<titles[1], " + ", titles[2]>> ELSE <<>>)),
              description |-> Str(<<"combines: ">> \o Flatten(lines)),
              source_innovations |-> List([i \in 1..n |-> Str(<<titles[i]>>)]),
              combination_type |-> combination_type,
              \* avg_confidence * 0.8
              feasibility_score |-> (sum_confidence * 8 * IdeaUnit) \div (10 * n * PointScale),
              \* avg_novelty * 1.2
              novelty_score |->
                  IF (sum_novelty * 12 * IdeaUnit) \div (10 * n * PointScale) > IdeaUnit
                  THEN IdeaUnit
                  ELSE (sum_novelty * 12 * IdeaUnit) \div (10 * n * PointScale),
              \* avg_novelty * avg_confidence
              impact_potential |->
                  (sum_novelty * sum_confidence * (IdeaUnit \div (PointScale * PointScale)))
                      \div (n * n),
              implementation_path |-> Str(<<"needs further research">>),
              research_directions |->
                  List([i \in 1..n |-> Str(<<"combine the method of ", titles[i]>>)])]

\* mutant: only the empty list gives no idea
create_combination_idea_lone(innovations, combination_type) ==
    LET n == Len(innovations)
        sum_novelty == SumOver(innovations, [p \in Range(innovations) |-> p.novelty_score])
        sum_confidence == SumOver(innovations, [p \in Range(innovations) |-> p.confidence])
        titles == [i \in 1..n |-> innovations[i].title]
        lines == [i \in 1..n |->
                     <<"- ", titles[i], ": ">>
                         \o Take(innovations[i].description, DESC_PREFIX) \o <<"...">>]
    IN  IF n < 1
        THEN None
        ELSE [title |-> Str(<<"Combined: ">> \o
                           (IF n >= 2 THEN <<titles[1], " + ", titles[2]>> ELSE <<>>)),
              description |-> Str(<<"combines: ">> \o Flatten(lines)),
              source_innovations |-> List([i \in 1..n |-> Str(<<titles[i]>>)]),
              combination_type |-> combination_type,
              \* avg_confidence * 0.8
              feasibility_score |-> (sum_confidence * 8 * IdeaUnit) \div (10 * n * PointScale),
              \* avg_novelty * 1.2
              novelty_score |-> (sum_novelty * 12 * IdeaUnit) \div (10 * n * PointScale),
              \* avg_novelty * avg_confidence
              impact_potential |->
                  (sum_novelty * sum_confidence * (IdeaUnit \div (PointScale * PointScale)))
                      \div (n * n),
              implementation_path |-> Str(<<"needs further research">>),
              research_directions |->
                  List([i \in 1..n |-> Str(<<"combine the method of ", titles[i]>>)])]

\* mutant: the impact is the mean of the two averages
create_combination_idea_mean(innovations, combination_type) ==
    LET n == Len(innovations)
        sum_novelty == SumOver(innovations, [p \in Range(innovations) |-> p.novelty_score])
        sum_confidence == SumOver(innovations, [p \in Range(innovations) |-> p.confidence])
        titles == [i \in 1..n |-> innovations[i].title]
        lines == [i \in 1..n |->
                     <<"- ", titles[i], ": ">>
                         \o Take(innovations[i].description, DESC_PREFIX) \o <<"...">>]
    IN  IF n < 2
        THEN None
        ELSE [title |-> Str(<<"Combined: ">> \o
                           (IF n >= 2 THEN <<titles[1], " + ", titles[2]>> ELSE <<>>)),
              description |-> Str(<<"combines: ">> \o Flatten(lines)),
              source_innovations |-> List([i \in 1..n |-> Str(<<titles[i]>>)]),
              combination_type |-> combination_type,
              \* avg_confidence * 0.8
              feasibility_score |-> (sum_confidence * 8 * IdeaUnit) \div (10 * n * PointScale),
              \* avg_novelty * 1.2
              novelty_score |-> (sum_novelty * 12 * IdeaUnit) \div (10 * n * PointScale),
              \* (avg_novelty + avg_confidence) / 2
              impact_potential |->
                  ((sum_novelty + sum_confidence) * IdeaUnit) \div (2 * n * PointScale),
              implementation_path |-> Str(<<"needs further research">>),
              research_directions |->
                  List([i \in 1..n |-> Str(<<"combine the method of ", titles[i]>>)])]

create_combination_idea(innovations, combination_type) ==
    LET n == Len(innovations)
        sum_novelty == SumOver(innovations, [p \in Range(innovations) |-> p.novelty_score])
        sum_confidence == SumOver(innovations, [p \in Range(innovations) |-> p.confidence])
        titles == [i \in 1..n |-> innovations[i].title]
        lines == [i \in 1..n |->
                     <<"- ", titles[i], ": ">>
                         \o Take(innovations[i].description, DESC_PREFIX) \o <<"...">>]
    IN  IF n < 2
        THEN None
        ELSE [title |-> Str(<<"Combined: ">> \o
                           (IF n >= 2 THEN <<titles[1], " + ", titles[2]>> ELSE <<>>)),
              description |-> Str(<<"combines: ">> \o Flatten(lines)),
              source_innovations |-> List([i \in 1..n |-> Str(<<titles[i]>>)]),
              combination_type |-> combination_type,
              \* avg_confidence * 0.8
              feasibility_score |-> (sum_confidence * 8 * IdeaUnit) \div (10 * n * PointScale),
              \* avg_novelty * 1.2
              novelty_score |-> (sum_novelty * 12 * IdeaUnit) \div (10 * n * PointScale),
              \* avg_novelty * avg_confidence
              impact_potential |->
                  (sum_novelty * sum_confidence * (IdeaUnit \div (PointScale * PointScale)))
                      \div (n * n),
              implementation_path |-> Str(<<"needs further research">>),
              research_directions |->
                  List([i \in 1..n |-> Str(<<"combine the method of ", titles[i]>>)])]

\* --------------------------------------------- _generate_combination_ideas

RECURSIVE category_names_front(_)
\* mutant: a new category goes in front of those seen before
category_names_front(innovations) ==
    IF innovations = <<>>
    THEN <<>>
    ELSE LET rest == category_names_front(SubSeq(innovations, 1, Len(innovations) - 1))
             c == innovations[Len(innovations)].category
         IN  IF c \in Range(rest) THEN rest ELSE <<c>> \o rest

RECURSIVE category_names(_)
\* list(categories.keys()): the categories in first-seen order
category_names(innovations) ==
    IF innovations = <<>>
    THEN <<>>
    ELSE LET rest == category_names(SubSeq(innovations, 1, Len(innovations) - 1))
             c == innovations[Len(innovations)].category
         IN  IF c \in Range(rest) THEN rest ELSE Append(rest, c)

\* categories[category]: the points of one category, in input order
category_group(innovations, category) ==
    SelectSeq(innovations, LAMBDA p : p.category = category)

RECURSIVE combinations2_from(_, _, _)
\* the pairs (seq[i], seq[k]), k > j, then those of every later i, in order
combinations2_from(seq, i, j) ==
    IF i >= Len(seq)
    THEN <<>>
    ELSE IF j > Len(seq)
         THEN combinations2_from(seq, i + 1, i + 2)
         ELSE <<(<<seq[i], seq[j]>>)>> \o combinations2_from(seq, i, j + 1)

\* list(itertools.combinations(seq, 2))
combinations2(seq) == combinations2_from(seq, 1, 2)

\* the ideas of a list of pairs; "if idea:" drops an absent idea
ideas_of_pairs(pairs, combination_type) ==
    LET made == [i \in 1..Len(pairs) |-> create_combination_idea(pairs[i], combination_type)]
    IN  SelectSeq(made, LAMBDA idea : idea # None)

\* mutant: every pair of the category is taken
intra_category_ideas_all(group) ==
    IF Len(group) >= 2
    THEN ideas_of_pairs(combinations2(group), Str(<<"intra_category">>))
    ELSE <<>>

\* mutant: a category needs three points to be combined
intra_category_ideas_three(group) ==
    IF Len(group) >= 3
    THEN ideas_of_pairs(Take(combinations2(group), INTRA_LIMIT), Str(<<"intra_category">>))
    ELSE <<>>

\* the intra-category loop body for one category
intra_category_ideas(group) ==
    IF Len(group) >= 2
    THEN ideas_of_pairs(Take(combinations2(group), INTRA_LIMIT), Str(<<"intra_category">>))
    ELSE <<>>

\* mutant: the two lists are zipped, not crossed
cross_pair_ideas_zip(innovations1, innovations2) ==
    LET n == IF Len(innovations1) < Len(innovations2)
             THEN Len(innovations1) ELSE Len(innovations2)
    IN  ideas_of_pairs([k \in 1..n |-> <<innovations1[k], innovations2[k]>>],
                       Str(<<"cross_category">>))

\* the cross-category loop body for one pair of categories
cross_pair_ideas(innovations1, innovations2) ==
    LET n1 == Len(innovations1)
        n2 == Len(innovations2)
        pairs == [k \in 1..(n1 * n2) |->
                     <<innovations1[((k - 1) \div n2) + 1], innovations2[((k - 1) % n2) + 1]>>]
    IN  ideas_of_pairs(pairs, Str(<<"cross_category">>))

RECURSIVE cross_from_all(_, _, _, _)
\* mutant: every point of the two categories takes part
cross_from_all(innovations, names, i, j) ==
    IF i > Len(names)
    THEN <<>>
    ELSE IF j > Len(names)
         THEN cross_from_all(innovations, names, i + 1, i + 2)
         ELSE cross_pair_ideas(category_group(innovations, names[i]),
                               category_group(innovations, names[j]))
              \o cross_from_all(innovations, names, i, j + 1)

RECURSIVE cross_from(_, _, _, _)
\* for i in range(len(names)): for j in range(i + 1, len(names)): ...
cross_from(innovations, names, i, j) ==
    IF i > Len(names)
    THEN <<>>
    ELSE IF j > Len(names)
         THEN cross_from(innovations, names, i + 1, i + 2)
         ELSE cross_pair_ideas(
                  Take(category_group(innovations, names[i]), CROSS_LIMIT),
                  Take(category_group(innovations, names[j]), CROSS_LIMIT))
              \o cross_from(innovations, names, i, j + 1)

\* mutant: the cross-category pass needs three categories
generate_combination_ideas_three(innovations) ==
    LET names == category_names(innovations)
        intra == Flatten([k \in 1..Len(names) |->
                     intra_category_ideas(category_group(innovations, names[k]))])
        cross == IF Len(names) >= 3 THEN cross_from(innovations, names, 1, 2) ELSE <<>>
    IN  intra \o cross

\* mutant: the cross-category ideas are put in front
generate_combination_ideas_cross_first(innovations) ==
    LET names == category_names(innovations)
        intra == Flatten([k \in 1..Len(names) |->
                     intra_category_ideas(category_group(innovations, names[k]))])
        cross == IF Len(names) >= 2 THEN cross_from(innovations, names, 1, 2) ELSE <<>>
    IN  cross \o intra

generate_combination_ideas(innovations) ==
    LET names == category_names(innovations)
        intra == Flatten([k \in 1..Len(names) |->
                     intra_category_ideas(category_group(innovations, names[k]))])
        cross == IF Len(names) >= 2 THEN cross_from(innovations, names, 1, 2) ELSE <<>>
    IN  intra \o cross

\* ------------------------------------------------ the provider's reply text

(* A reply is a sequence of tokens: running text without braces, the two   *)
(* braces, and what stands between the braces of a JSON object: a          *)
(* "generated_ideas" member with its array (v), some other member, or      *)
(* text that is no JSON.                                                   *)
Tok(kind, payload) == [k |-> kind, v |-> payload]
TXT == Tok("text", <<>>)
LBRACE == Tok("{", <<>>)
RBRACE == Tok("}", <<>>)
JUNK == Tok("junk", <<>>)
OTHER_MEMBER == Tok("other_member", <<>>)
IDEAS_MEMBER(elements) == Tok("generated_ideas", elements)
INNOVATIONS_MEMBER(elements) == Tok("innovations", elements)

\* a JSON number with six decimals, in millionths: every score of an idea,
\* a multiple of 1/IdeaUnit, is written exactly
DecimalUnit == 25 * IdeaUnit
Dec(m) == [t |-> "dec", m |-> m]

\* a key a JSON object does not have
Absent == [t |-> "absent"]
\* a JSON string that reads as a number, such as "0.8"
NumStr(n) == [t |-> "numstr", n |-> n]

\* result_text.find('{'), 1-based; 0 stands for Python's -1
find_lbrace(text) ==
    IF \E i \in 1..Len(text) : text[i] = LBRACE
    THEN CHOOSE i \in 1..Len(text) :
             text[i] = LBRACE /\ \A j \in 1..(i - 1) : text[j] # LBRACE
    ELSE 0

\* result_text.rfind('}') + 1: the 1-based place of the last brace, 0 for none
rfind_rbrace_end(text) ==
    IF \E i \in 1..Len(text) : text[i] = RBRACE
    THEN CHOOSE i \in 1..Len(text) :
             text[i] = RBRACE /\ \A j \in (i + 1)..Len(text) : text[j] # RBRACE
    ELSE 0

\* the two characters a JSON string cannot hold as they are
QUOTE == "\""
BACKSLASH == "\\"

\* a text as json.dump writes it between quotes (ensure_ascii=False)
RECURSIVE json_escape(_)
json_escape(pieces) ==
    IF pieces = <<>>
    THEN <<>>
    ELSE (IF Head(pieces) \in {QUOTE, BACKSLASH}
          THEN <<BACKSLASH, Head(pieces)>>
          ELSE <<Head(pieces)>>) \o json_escape(Tail(pieces))

\* the text json.loads reads from between quotes
RECURSIVE json_unescape(_)
json_unescape(pieces) ==
    IF pieces = <<>>
    THEN <<>>
    ELSE IF Head(pieces) = BACKSLASH /\ Len(pieces) >= 2
         THEN <<pieces[2]>> \o json_unescape(SubSeq(pieces, 3, Len(pieces)))
         ELSE <<Head(pieces)>> \o json_unescape(Tail(pieces))

\* a value as json.dump writes it: strings escaped, in lists too
json_encode(v) ==
    CASE v.t = "str" -> Str(json_escape(v.s))
      [] v.t = "list" ->
             List([i \in 1..Len(v.l) |->
                      IF v.l[i].t = "str" THEN Str(json_escape(v.l[i].s)) ELSE v.l[i]])
      [] OTHER -> v

\* a value as json.loads reads it
json_decode(v) ==
    CASE v.t = "str" -> Str(json_unescape(v.s))
      [] v.t = "list" ->
             List([i \in 1..Len(v.l) |->
                      IF v.l[i].t = "str" THEN Str(json_unescape(v.l[i].s)) ELSE v.l[i]])
      [] OTHER -> v

\* json.loads: [ok, data]; data is the object, a key -> value record. The
\* text is an object when its members stand between one pair of braces; of
\* two members with one key the later one counts.
json_loads(json_str) ==
    LET n == Len(json_str)
        members == SubSeq(json_str, 2, n - 1)
        value_of(key) ==
            IF \E i \in 1..Len(members) : members[i].k = key
            THEN LET array == members[CHOOSE i \in 1..Len(members) :
                                         /\ members[i].k = key
                                         /\ \A j \in (i + 1)..Len(members) :
                                                members[j].k # key].v
                 IN  List([i \in 1..Len(array) |->
                              [f \in DOMAIN array[i] |-> json_decode(array[i][f])]])
            ELSE Absent
    IN  IF /\ n >= 2
           /\ json_str[1] = LBRACE
           /\ json_str[n] = RBRACE
           /\ \A i \in 1..Len(members) :
                  members[i].k \in {"generated_ideas", "innovations", "other_member"}
        THEN [ok |-> TRUE,
              data |-> [generated_ideas |-> value_of("generated_ideas"),
                        innovations |-> value_of("innovations")]]
        ELSE [ok |-> FALSE, data |-> [generated_ideas |-> Absent, innovations |-> Absent]]

\* mutant: d[key], which raises for a key the object does not have
dict_get_subscript(d, key, default) == d[key]

\* dict.get(key, default)
dict_get(d, key, default) == IF d[key] = Absent THEN default ELSE d[key]

\* float(v) raises for what is no number: [ok, val]
to_float(v) ==
    IF v.t \in {"num", "numstr"}
    THEN [ok |-> TRUE, val |-> v.n * (IdeaUnit \div PointScale)]
    ELSE IF v.t = "dec"
         THEN [ok |-> TRUE, val |-> v.m \div (DecimalUnit \div IdeaUnit)]
         ELSE [ok |-> FALSE, val |-> 0]

\* GeneratedIdea(...) of one element of the array: [ok, idea]
idea_of_element(idea_data) ==
    LET f == to_float(dict_get(idea_data, "feasibility_score", Num(PointScale \div 2)))
        n == to_float(dict_get(idea_data, "novelty_score", Num(PointScale \div 2)))
        p == to_float(dict_get(idea_data, "impact_potential", Num(PointScale \div 2)))
    IN  [ok |-> f.ok /\ n.ok /\ p.ok,
         idea |-> [title |-> dict_get(idea_data, "title", Str(<<>>)),
                   description |-> dict_get(idea_data, "description", Str(<<>>)),
                   source_innovations |-> dict_get(idea_data, "source_innovations", List(<<>>)),
                   combination_type |->
                       dict_get(idea_data, "combination_type", Str(<<"ai_generated">>)),
                   feasibility_score |-> f.val,
                   novelty_score |-> n.val,
                   impact_potential |-> p.val,
                   implementation_path |-> dict_get(idea_data, "implementation_path", Str(<<>>)),
                   research_directions |-> dict_get(idea_data, "research_directions", List(<<>>))]]

\* _parse_ai_generation_result: any exception inside gives []
parse_ai_generation_result(result_text) ==
    LET json_start == find_lbrace(result_text)
        json_end == rfind_rbrace_end(result_text)
        parsed == json_loads(SubSeq(result_text, json_start, json_end))
        array == dict_get(parsed.data, "generated_ideas", List(<<>>))
        made == [i \in 1..Len(array.l) |-> idea_of_element(array.l[i])]
    IN  IF json_start = 0 \/ json_end = 0
        THEN <<>>
        ELSE IF ~parsed.ok
             THEN <<>>
             ELSE IF \E i \in 1..Len(made) : ~made[i].ok
                  THEN <<>>
                  ELSE [i \in 1..Len(made) |-> made[i].idea]

\* ------------------------------------------------------ _generate_ai_ideas

\* which branch of _generate_ai_ideas a configuration takes
ai_dispatch(openai_client, anthropic_client, deepseek_key) ==
    IF ~openai_client /\ ~anthropic_client /\ ~deepseek_key
    THEN "unavailable"
    ELSE IF ~openai_client
         THEN "openai"
         ELSE IF ~anthropic_client
              THEN "anthropic"
              ELSE IF deepseek_key THEN "deepseek" ELSE "no_client"

\* whether the object a branch calls into exists (a call on None raises)
callee_exists(branch, openai_client, anthropic_client, deepseek_key) ==
    CASE branch = "openai" -> openai_client
      [] branch = "anthropic" -> anthropic_client
      [] branch = "deepseek" -> TRUE
      [] OTHER -> FALSE

\* a provider's behaviour when called: it raises, or returns a text
Raises == [raises |-> TRUE, text |-> <<>>]
Returns(text) == [raises |-> FALSE, text |-> text]

\* _generate_ai_ideas for a configuration and what the provider would do
generate_ai_ideas(openai_client, anthropic_client, deepseek_key, behaviour) ==
    LET branch == ai_dispatch(openai_client, anthropic_client, deepseek_key)
    IN  IF branch \in {"unavailable", "no_client"}
        THEN <<>>
        ELSE IF ~callee_exists(branch, openai_client, anthropic_client, deepseek_key)
             THEN <<>>
             ELSE IF behaviour.raises
                  THEN <<>>
                  ELSE parse_ai_generation_result(behaviour.text)

\* the provider _generate_ai_ideas calls, "none" if it calls none
provider_called(openai_client, anthropic_client, deepseek_key) ==
    LET branch == ai_dispatch(openai_client, anthropic_client, deepseek_key)
    IN  IF callee_exists(branch, openai_client, anthropic_client, deepseek_key)
        THEN branch ELSE "none"

\* innovations[:20], idea_generator.py:207
CONTEXT_LIMIT == 20
\* inv['description'][:200], idea_generator.py:262
PROMPT_DESC_PREFIX == 200

\* a value that has not been computed
Pending == [t |-> "pending"]

\* mutant: every point goes into the prompt
build_innovations_data_all(innovations) ==
    [i \in 1..Len(innovations) |->
        [title |-> innovations[i].title,
         description |-> innovations[i].description,
         category |-> innovations[i].category,
         novelty_score |-> innovations[i].novelty_score]]

\* lines 205-213: innovations_data
build_innovations_data(innovations) ==
    LET first == Take(innovations, CONTEXT_LIMIT)
    IN  [i \in 1..Len(first) |->
            [title |-> first[i].title,
             description |-> first[i].description,
             category |-> first[i].category,
             novelty_score |-> first[i].novelty_score]]

\* _build_ai_generation_prompt: the topic and one line per point
build_ai_generation_prompt(data, subject) ==
    [topic |-> subject,
     innovations_text |->
         [i \in 1..Len(data) |->
             <<"- ", data[i].title, ": ">> \o Take(data[i].description, PROMPT_DESC_PREFIX)
                 \o <<"... (", data[i].category, ", ", data[i].novelty_score, ")">>]]

\* innovations_data as _generate_ai_ideas leaves it: not built when no
\* provider is configured
ai_innovations_data(openai, anthropic, deepseek, innovations) ==
    IF ai_dispatch(openai, anthropic, deepseek) = "unavailable"
    THEN Pending
    ELSE build_innovations_data(innovations)

\* the prompt the provider is called with, Pending when none is called
ai_prompt_sent(openai, anthropic, deepseek, innovations, subject) ==
    IF provider_called(openai, anthropic, deepseek) = "none"
    THEN Pending
    ELSE build_ai_generation_prompt(build_innovations_data(innovations), subject)

\* -------------------------------------------------- _filter_and_rank_ideas

\* mutant: the impact an idea arrives with is kept
rescore_keep(idea) == idea

\* idea.impact_potential = (idea.novelty_score + idea.feasibility_score) / 2
rescore(idea) ==
    [idea EXCEPT !.impact_potential = (idea.novelty_score + idea.feasibility_score) \div 2]

\* mutant: x goes in front of the elements it ranks level with
insert_desc_front(sorted, x) ==
    LET ahead == {i \in 1..Len(sorted) : sorted[i].impact_potential > x.impact_potential}
        k == Cardinality(ahead)
    IN  SubSeq(sorted, 1, k) \o <<x>> \o SubSeq(sorted, k + 1, Len(sorted))

\* x put into a list sorted by descending key, behind every element that
\* does not rank below it
insert_desc(sorted, x) ==
    LET ahead == {i \in 1..Len(sorted) : sorted[i].impact_potential >= x.impact_potential}
        k == Cardinality(ahead)
    IN  SubSeq(sorted, 1, k) \o <<x>> \o SubSeq(sorted, k + 1, Len(sorted))

RECURSIVE sort_desc(_)
\* ideas.sort(key=lambda x: x.impact_potential, reverse=True): stable
sort_desc(ideas) ==
    IF ideas = <<>>
    THEN <<>>
    ELSE insert_desc(sort_desc(SubSeq(ideas, 1, Len(ideas) - 1)), ideas[Len(ideas)])

\* the list as the in-place loop and sort leave it
rank_in_place(ideas) == sort_desc([i \in 1..Len(ideas) |-> rescore(ideas[i])])

\* mutant: the list is cut to its first 20 before it is ranked
filter_and_rank_ideas_cut_first(ideas) ==
    sort_desc([i \in 1..(IF Len(ideas) < RESULT_LIMIT THEN Len(ideas) ELSE RESULT_LIMIT) |->
                  [ideas[i] EXCEPT
                      !.impact_potential =
                          (ideas[i].novelty_score + ideas[i].feasibility_score) \div 2]])

\* mutant: the ranked list is returned whole
filter_and_rank_ideas_whole(ideas) == rank_in_place(ideas)

filter_and_rank_ideas(ideas) == Take(rank_in_place(ideas), RESULT_LIMIT)

\* --------------------------------------------- _generate_analysis_summary

RECURSIVE count_by(_)
\* the dict of counts a loop of d[k] = d.get(k, 0) + 1 builds, as the
\* sequence of <<key, count>> in first-seen order
count_by(keys) ==
    IF keys = <<>>
    THEN <<>>
    ELSE LET rest == count_by(SubSeq(keys, 1, Len(keys) - 1))
             k == keys[Len(keys)]
         IN  IF \E i \in 1..Len(rest) : rest[i][1] = k
             THEN [i \in 1..Len(rest) |->
                      IF rest[i][1] = k THEN <<k, rest[i][2] + 1>> ELSE rest[i]]
             ELSE Append(rest, <<k, 1>>)

\* f"{x:.2f}" of a mean sum/n of idea scores: hundredths, rounded
mean_2f(sum, n) == (2 * sum * PointScale + n * IdeaUnit) \div (2 * n * IdeaUnit)

\* [raised, summary]: the division by len(ideas) raises for no ideas
generate_analysis_summary(innovations, ideas) ==
    IF Len(ideas) = 0
    THEN [raised |-> "ZeroDivisionError", summary |-> None]
    ELSE [raised |-> "",
          summary |->
              [t |-> "summary",
               innovations |-> Len(innovations),
               ideas |-> Len(ideas),
               categories |-> count_by([i \in 1..Len(innovations) |-> innovations[i].category]),
               combination_types |->
                   count_by([i \in 1..Len(ideas) |-> ideas[i].combination_type]),
               novelty |->
                   mean_2f(SumOver(ideas, [x \in Range(ideas) |-> x.novelty_score]), Len(ideas)),
               feasibility |->
                   mean_2f(SumOver(ideas, [x \in Range(ideas) |-> x.feasibility_score]),
                           Len(ideas))]]

\* ------------------------------------------------------------------- state

VARIABLES
    pc,                  \* where the call stands
    innovations_list,    \* the argument: the papers the caller collected
    topic,               \* the argument: the research topic
    openai_client,       \* self.openai_client is set (not None)
    anthropic_client,    \* self.anthropic_client is set (not None)
    deepseek_key,        \* settings.DEEPSEEK_API_KEY is set
    provider_behaviour,  \* what the provider does when it is called
    all_innovations,     \* generate's local; the argument of the two helpers
    combined_ideas,      \* generate's local
    ai_generated_ideas,  \* generate's local
    ideas_before,        \* history: the list _filter_and_rank_ideas was given
    all_ideas,           \* generate's local, ranked in place
    filtered_ideas,      \* generate's local
    result,              \* what generate returned
    raised,              \* the exception that left generate, "" for none
    combination_arg,     \* combination_type as passed to _create_combination_idea
    created_idea,        \* what that call returned
    innovations_data,    \* _generate_ai_ideas' local: the points as given to the prompt
    prompt_sent,         \* the prompt a provider was called with
    extracted,           \* what the extractor's ingestion returned
    saved_text,          \* the file save_generation_result wrote
    loaded_ideas,        \* the ideas parsed back from that file
    calls,               \* the generate invocations running on one IdeaGenerator
    session_storage,     \* api/app.py: session_storage
    requests,            \* api/app.py: the requests being handled
    clock                \* api/app.py: datetime.now(), in seconds

vars ==
    <<pc, innovations_list, topic, openai_client, anthropic_client, deepseek_key,
      provider_behaviour, all_innovations, combined_ideas, ai_generated_ideas,
      ideas_before, all_ideas, filtered_ideas, result, raised,
      combination_arg, created_idea, innovations_data, prompt_sent,
      extracted, saved_text, loaded_ideas, calls, session_storage, requests, clock>>

config == <<openai_client, anthropic_client, deepseek_key>>
locals == <<all_innovations, combined_ideas, ai_generated_ideas, ideas_before,
            all_ideas, filtered_ideas>>
direct == <<combination_arg, created_idea>>
context == <<innovations_data, prompt_sent>>
ingest == <<extracted>>
saved == <<saved_text, loaded_ideas>>
concurrent == <<calls>>
api == <<session_storage, requests, clock>>
beyond == <<ingest, saved, concurrent, api>>
\* what the steps of generate and the stubs of its tests leave alone
others == <<direct, context, beyond>>
\* the arguments, configuration and locals of the one generate call
engine == <<innovations_list, topic, config, provider_behaviour, locals, result, raised>>

NotCalled == [raises |-> FALSE, text |-> <<Tok("not called", <<>>)>>]
Topics == {"ml", "nlp"}

\* everything but pc, as it is before anything ran
Blank ==
    /\ innovations_list = <<>>
    /\ topic = ""
    /\ openai_client = FALSE
    /\ anthropic_client = FALSE
    /\ deepseek_key = FALSE
    /\ provider_behaviour = NotCalled
    /\ all_innovations = <<>>
    /\ combined_ideas = <<>>
    /\ ai_generated_ideas = <<>>
    /\ ideas_before = <<>>
    /\ all_ideas = <<>>
    /\ filtered_ideas = <<>>
    /\ result = Pending
    /\ raised = ""
    /\ combination_arg = ""
    /\ created_idea = Pending
    /\ innovations_data = Pending
    /\ prompt_sent = Pending
    /\ extracted = Pending
    /\ saved_text = Pending
    /\ loaded_ideas = Pending
    /\ calls = <<>>
    /\ session_storage = <<>>
    /\ requests = <<>>
    /\ clock = 0

\* ------------------------------------------------- the provider's replies

\* the element of test_generate_ai_ideas_openai_success
ElementFull ==
    [title |-> Str(<<"AI Generated Idea">>),
     description |-> Str(<<"A new idea generated by AI">>),
     source_innovations |-> List(<<Str(<<"Algorithm A">>), Str(<<"Architecture B">>)>>),
     combination_type |-> Str(<<"ai_generated">>),
     feasibility_score |-> Num(80),
     novelty_score |-> Num(90),
     impact_potential |-> Num(85),
     implementation_path |-> Str(<<"Implement using deep learning">>),
     research_directions |-> List(<<Str(<<"Direction 1">>), Str(<<"Direction 2">>)>>)]

\* an element with the scores only; it ranks level with the pair A + B
ElementTie ==
    [title |-> Str(<<"Tie">>),
     description |-> Absent,
     source_innovations |-> Absent,
     combination_type |-> Absent,
     feasibility_score |-> Num(82),
     novelty_score |-> Num(90),
     impact_potential |-> Absent,
     implementation_path |-> Absent,
     research_directions |-> Absent]

ElementPool == {ElementFull, ElementTie}

\* the arrays of at most n elements
ElementArrays(n) == UNION {[1..k -> ElementPool] : k \in 0..n}

ObjectText(elements) == <<LBRACE, IDEAS_MEMBER(elements), RBRACE>>

\* what a called provider may do inside generate
CallBehaviours ==
    {Raises, Returns(<<TXT>>), Returns(<<LBRACE, JUNK, RBRACE>>)}
        \cup {Returns(ObjectText(a)) : a \in ElementArrays(1)}
        \cup {Returns(<<TXT>> \o ObjectText(<<ElementTie>>) \o <<TXT>>)}

\* ------------------------------------------------------------ the caller

\* the points a caller has collected so far
staged_points == Flatten([i \in 1..Len(innovations_list) |-> innovations_list[i].innovations])

\* the sequences of at most n points of a set, none twice
PointSeqs(S, n) ==
    UNION {{q \in [1..k -> S] : \A i, j \in 1..k : i # j => q[i] # q[j]} : k \in 0..n}

\* innovations_list.append(innovations), api/app.py:278
AppendPaper(innovations) ==
    /\ pc = "stage"
    /\ Len(innovations_list) < MaxPapers
    /\ innovations_list' =
           Append(innovations_list, Paper(Len(innovations_list) + 1, innovations))
    /\ UNCHANGED <<others, pc, topic, config, provider_behaviour, locals, result, raised>>

\* IdeaGenerator(): __init__ reads the keys of the settings
Construct(openai_key, anthropic_key, deepseek) ==
    /\ pc = "stage"
    /\ pc' = "ready"
    /\ openai_client' = openai_key
    /\ anthropic_client' = anthropic_key
    /\ deepseek_key' = deepseek
    /\ UNCHANGED <<others, innovations_list, topic, provider_behaviour, locals, result, raised>>

\* ------------------------------------- generate_ideas_from_innovations

Call(t) ==
    /\ pc = "ready"
    /\ pc' = "collect"
    /\ topic' = t
    /\ UNCHANGED <<others, innovations_list, config, provider_behaviour, locals, result, raised>>

\* lines 68-71
Collect ==
    /\ pc = "collect"
    /\ all_innovations' = staged_points
    /\ pc' = "guard"
    /\ UNCHANGED <<others, innovations_list, topic, config, provider_behaviour, combined_ideas,
                   ai_generated_ideas, ideas_before, all_ideas, filtered_ideas, result, raised>>

\* mutant: the guard looks at the list of papers, not at the points
GuardOnPapers ==
    /\ pc = "guard"
    /\ IF innovations_list = <<>>
       THEN pc' = "done" /\ result' = None
       ELSE pc' = "combine" /\ result' = result
    /\ UNCHANGED <<others, innovations_list, topic, config, provider_behaviour, locals, raised>>

\* mutant: no guard; the call goes on to the generation whatever it collected
GuardSkipped ==
    /\ pc = "guard"
    /\ pc' = "combine"
    /\ UNCHANGED <<others, innovations_list, topic, config, provider_behaviour, locals, result,
                   raised>>

\* lines 73-75
Guard ==
    /\ pc = "guard"
    /\ IF all_innovations = <<>>
       THEN pc' = "done" /\ result' = None
       ELSE pc' = "combine" /\ result' = result
    /\ UNCHANGED <<others, innovations_list, topic, config, provider_behaviour, locals, raised>>

\* line 78
Combine ==
    /\ pc = "combine"
    /\ combined_ideas' = generate_combination_ideas(all_innovations)
    /\ pc' = "ai"
    /\ UNCHANGED <<others, innovations_list, topic, config, provider_behaviour, all_innovations,
                   ai_generated_ideas, ideas_before, all_ideas, filtered_ideas, result, raised>>

\* line 81
AiIdeas ==
    /\ pc = "ai"
    /\ \E b \in (IF provider_called(openai_client, anthropic_client, deepseek_key) = "none"
                 THEN {NotCalled} ELSE CallBehaviours) :
           /\ provider_behaviour' = b
           /\ ai_generated_ideas' =
                  generate_ai_ideas(openai_client, anthropic_client, deepseek_key, b)
    /\ innovations_data' =
           ai_innovations_data(openai_client, anthropic_client, deepseek_key, all_innovations)
    /\ prompt_sent' =
           ai_prompt_sent(openai_client, anthropic_client, deepseek_key, all_innovations, topic)
    /\ pc' = "merge"
    /\ UNCHANGED <<direct, beyond, innovations_list, topic, config, all_innovations,
                   combined_ideas, ideas_before, all_ideas, filtered_ideas, result, raised>>

\* lines 84-87; the ideas are rescored in place, so in every list that holds them
Merge ==
    /\ pc = "merge"
    /\ ideas_before' = combined_ideas \o ai_generated_ideas
    /\ all_ideas' = rank_in_place(combined_ideas \o ai_generated_ideas)
    /\ filtered_ideas' = filter_and_rank_ideas(combined_ideas \o ai_generated_ideas)
    /\ combined_ideas' = [i \in 1..Len(combined_ideas) |-> rescore(combined_ideas[i])]
    /\ ai_generated_ideas' =
           [i \in 1..Len(ai_generated_ideas) |-> rescore(ai_generated_ideas[i])]
    /\ pc' = "summarize"
    /\ UNCHANGED <<others, innovations_list, topic, config, provider_behaviour, all_innovations,
                   result, raised>>

\* mutant: total_papers counts only the papers that hold a point
SummarizeCountingFilled ==
    /\ pc = "summarize"
    /\ LET s == generate_analysis_summary(all_innovations, filtered_ideas)
       IN  IF s.raised # ""
           THEN raised' = s.raised /\ result' = result
           ELSE /\ raised' = raised
                /\ result' =
                       [t |-> "IdeaGenerationResult",
                        topic |-> topic,
                        generated_ideas |-> filtered_ideas,
                        analysis_summary |-> s.summary,
                        generation_metadata |->
                            [total_innovations |-> Len(all_innovations),
                             total_papers |->
                                 Len(SelectSeq(innovations_list,
                                               LAMBDA e : e.innovations # <<>>)),
                             generation_method |-> "combination_and_ai"]]
    /\ pc' = "done"
    /\ UNCHANGED <<others, innovations_list, topic, config, provider_behaviour, locals>>

\* lines 89-98
Summarize ==
    /\ pc = "summarize"
    /\ LET s == generate_analysis_summary(all_innovations, filtered_ideas)
       IN  IF s.raised # ""
           THEN raised' = s.raised /\ result' = result
           ELSE /\ raised' = raised
                /\ result' =
                       [t |-> "IdeaGenerationResult",
                        topic |-> topic,
                        generated_ideas |-> filtered_ideas,
                        analysis_summary |-> s.summary,
                        generation_metadata |->
                            [total_innovations |-> Len(all_innovations),
                             total_papers |-> Len(innovations_list),
                             generation_method |-> "combination_and_ai"]]
    /\ pc' = "done"
    /\ UNCHANGED <<others, innovations_list, topic, config, provider_behaviour, locals>>

Init == pc = "stage" /\ Blank

Next ==
    \/ \E q \in PointSeqs(PointPool \ Range(staged_points),
                          MaxPoints - Len(staged_points)) : AppendPaper(q)
    \/ \E o, a, d \in BOOLEAN : Construct(o, a, d)
    \/ \E t \in Topics : Call(t)
    \/ Collect
    \/ Guard
    \/ Combine
    \/ AiIdeas
    \/ Merge
    \/ Summarize

Spec == Init /\ [][Next]_vars

\* ------------------------------- _generate_combination_ideas, called alone

\* points staged for a direct call of _generate_combination_ideas
MaxCombPoints == 8

CombCategories == {"X", "Y", "Z"}

\* the i-th staged point: its own title, scores that vary with i
CombPoint(i, category) ==
    [title |-> "P" \o ToString(i), description |-> <<"p", ToString(i)>>,
     category |-> category, impact |-> "i", methodology |-> "m",
     novelty_score |-> 60 + 10 * (i % 4), confidence |-> 70 + 5 * (i % 5)]

\* the names of the categories, in the order in which a list first uses them
CategoryOrder == <<"X", "Y", "Z">>

\* the caller builds the list of points. The code never looks into the name
\* of a category, so the lists are taken up to renaming: the first category
\* of a list is X, the next new one Y, then Z.
StagePoint(category) ==
    /\ pc = "comb_stage"
    /\ Len(all_innovations) < MaxCombPoints
    /\ \E k \in 1..Len(CategoryOrder) :
           /\ CategoryOrder[k] = category
           /\ \A j \in 1..(k - 1) :
                  \E i \in 1..Len(all_innovations) :
                      all_innovations[i].category = CategoryOrder[j]
    /\ all_innovations' = Append(all_innovations, CombPoint(Len(all_innovations) + 1, category))
    /\ UNCHANGED <<others, pc, innovations_list, topic, config, provider_behaviour, combined_ideas,
                   ai_generated_ideas, ideas_before, all_ideas, filtered_ideas, result, raised>>

\* ideas = generator._generate_combination_ideas(innovations, topic)
CombineDirect ==
    /\ pc = "comb_stage"
    /\ combined_ideas' = generate_combination_ideas(all_innovations)
    /\ pc' = "comb_done"
    /\ UNCHANGED <<others, innovations_list, topic, config, provider_behaviour, all_innovations,
                   ai_generated_ideas, ideas_before, all_ideas, filtered_ideas, result, raised>>

InitComb == pc = "comb_stage" /\ Blank

NextComb ==
    \/ \E c \in CombCategories : StagePoint(c)
    \/ CombineDirect

SpecComb == InitComb /\ [][NextComb]_vars

\* ----------------------------------- the merge step over stubbed generators

\* ideas the stubbed _generate_combination_ideas returns
MaxStubIdeas == 25
\* ideas the stubbed _generate_ai_ideas returns
MaxStubAi == 1

\* GeneratedIdea(...) as the tests build it: scores in hundredths
FixtureIdea(name, combination_type, feasibility, novelty, impact) ==
    [title |-> Str(name),
     description |-> Str(<<"Description">>),
     source_innovations |-> List(<<Str(<<"Source">>)>>),
     combination_type |-> Str(<<combination_type>>),
     feasibility_score |-> feasibility * (IdeaUnit \div PointScale),
     novelty_score |-> novelty * (IdeaUnit \div PointScale),
     impact_potential |-> impact * (IdeaUnit \div PointScale),
     implementation_path |-> Str(<<"Path">>),
     research_directions |-> List(<<Str(<<"Direction">>)>>)]

\* test_filter_and_rank_ideas_limit: "Idea i", all scores 0.5
EqualIdea(i) == FixtureIdea(<<"Idea ", ToString(i)>>, "test", 50, 50, 50)
\* test_filter_and_rank_ideas: "Idea 1", 0.8 and 0.9, impact 0.0 before the merge
HighIdea == FixtureIdea(<<"High">>, "test", 80, 90, 0)
\* more novel than an EqualIdea and less feasible: it ranks below one
LowIdea == FixtureIdea(<<"Low">>, "test", 20, 60, 90)
\* test_generate_ideas_from_innovations_success: "AI Idea", 0.7 and 0.8
AiStubIdea == FixtureIdea(<<"AI Idea">>, "ai_generated", 70, 80, 75)
\* an external idea that ranks level with every EqualIdea
AiTieIdea == FixtureIdea(<<"AI Tie">>, "ai_generated", 60, 40, 10)

NamedIdeas == {HighIdea, LowIdea}
AiStubIdeas == {AiStubIdea, AiTieIdea}

\* mock_combination_ideas.return_value grows by one idea
StubCombined(idea) ==
    /\ pc = "merge"
    /\ ai_generated_ideas = <<>>
    /\ Len(combined_ideas) < MaxStubIdeas
    /\ idea \notin Range(combined_ideas)
    /\ combined_ideas' = Append(combined_ideas, idea)
    /\ UNCHANGED <<others, pc, innovations_list, topic, config, provider_behaviour, all_innovations,
                   ai_generated_ideas, ideas_before, all_ideas, filtered_ideas, result, raised>>

\* mock_ai_ideas.return_value grows by one idea
StubAi(idea) ==
    /\ pc = "merge"
    /\ Len(ai_generated_ideas) < MaxStubAi
    /\ idea \notin Range(ai_generated_ideas)
    /\ ai_generated_ideas' = Append(ai_generated_ideas, idea)
    /\ UNCHANGED <<others, pc, innovations_list, topic, config, provider_behaviour, all_innovations,
                   combined_ideas, ideas_before, all_ideas, filtered_ideas, result, raised>>

InitMerge == pc = "merge" /\ Blank

NextMerge ==
    \/ \E idea \in NamedIdeas \cup {EqualIdea(Len(combined_ideas) + 1)} : StubCombined(idea)
    \/ \E idea \in AiStubIdeas : StubAi(idea)
    \/ Merge

SpecMerge == InitMerge /\ [][NextMerge]_vars

\* ------------------------------------------- _generate_ai_ideas, called alone

\* what the provider of a direct call may do
DirectBehaviours ==
    {Raises, Returns(<<>>), Returns(<<TXT>>), Returns(<<LBRACE, JUNK, RBRACE>>),
     Returns(<<LBRACE, RBRACE>>), Returns(<<LBRACE, OTHER_MEMBER, RBRACE>>),
     Returns(<<RBRACE, TXT, LBRACE>>), Returns(<<LBRACE, TXT>>)}
        \cup {Returns(ObjectText(a)) : a \in ElementArrays(MaxAiIdeas)}
        \cup {Returns(<<TXT>> \o ObjectText(a) \o <<TXT>>) : a \in ElementArrays(MaxAiIdeas)}
        \cup {Returns(ObjectText(a) \o <<TXT>> \o ObjectText(a)) : a \in ElementArrays(1)}

\* ideas = generator._generate_ai_ideas(innovations, topic)
AiDirect(b) ==
    /\ pc = "ready"
    /\ provider_behaviour' = b
    /\ ai_generated_ideas' = generate_ai_ideas(openai_client, anthropic_client, deepseek_key, b)
    /\ innovations_data' =
           ai_innovations_data(openai_client, anthropic_client, deepseek_key, all_innovations)
    /\ prompt_sent' =
           ai_prompt_sent(openai_client, anthropic_client, deepseek_key, all_innovations, topic)
    /\ pc' = "ai_done"
    /\ UNCHANGED <<direct, beyond, innovations_list, topic, config, all_innovations,
                   combined_ideas, ideas_before, all_ideas, filtered_ideas, result, raised>>

NextAi ==
    \/ \E o, a, d \in BOOLEAN : Construct(o, a, d)
    \/ \E b \in DirectBehaviours : AiDirect(b)

SpecAi == Init /\ [][NextAi]_vars

\* ------------------------------- _parse_ai_generation_result, called alone

\* elements of the generated_ideas array of a text parsed directly
MaxParseElements == 3

\* an element with a title and nothing else
ElementBare ==
    [title |-> Str(<<"Bare">>),
     description |-> Absent,
     source_innovations |-> Absent,
     combination_type |-> Absent,
     feasibility_score |-> Absent,
     novelty_score |-> Absent,
     impact_potential |-> Absent,
     implementation_path |-> Absent,
     research_directions |-> Absent]

\* an element whose feasibility_score is a word: float("high") raises
ElementBadScore ==
    [ElementFull EXCEPT !.title = Str(<<"Bad">>),
                        !.feasibility_score = Str(<<"high">>)]

\* an element whose impact_potential is null: float(None) raises
ElementNullScore ==
    [ElementFull EXCEPT !.title = Str(<<"Null">>),
                        !.combination_type = Str(<<"analogy">>),
                        !.impact_potential = None]

\* an element whose scores are strings that read as numbers and whose title
\* is a number
ElementNumStr ==
    [ElementFull EXCEPT !.title = Num(7),
                        !.combination_type = Str(<<"analogy">>),
                        !.feasibility_score = NumStr(80),
                        !.novelty_score = NumStr(90)]

ParseElementPool == {ElementFull, ElementTie, ElementBare, ElementBadScore,
                     ElementNullScore, ElementNumStr}

\* the elements of the text built so far
staged_elements ==
    IF provider_behaviour = NotCalled THEN <<>> ELSE provider_behaviour.text[2].v

\* the caller writes one more element into the text
StageElement(element) ==
    /\ pc = "parse_stage"
    /\ Len(staged_elements) < MaxParseElements
    /\ provider_behaviour' = Returns(ObjectText(Append(staged_elements, element)))
    /\ UNCHANGED <<others, pc, innovations_list, topic, config, locals, result, raised>>

\* ideas = generator._parse_ai_generation_result(json_result); the except
\* clause of lines 341-343 lets no exception out
ParseDirect ==
    /\ pc = "parse_stage"
    /\ provider_behaviour' = Returns(ObjectText(staged_elements))
    /\ ai_generated_ideas' = parse_ai_generation_result(ObjectText(staged_elements))
    /\ pc' = "parse_done"
    /\ UNCHANGED <<others, innovations_list, topic, config, all_innovations, combined_ideas,
                   ideas_before, all_ideas, filtered_ideas, result, raised>>

InitParse == pc = "parse_stage" /\ Blank

NextParse ==
    \/ \E element \in ParseElementPool : StageElement(element)
    \/ ParseDirect

SpecParse == InitParse /\ [][NextParse]_vars

\* --------------------------------- _create_combination_idea, called alone

\* points passed to a direct call of _create_combination_idea
MaxCreatePoints == 3

\* the scores a staged point may have; 0.8 / 0.9 and 0.9 / 0.85 are those of
\* the first two points of the tests
NoveltyLevels == {0, 80, 90, 100}
ConfidenceLevels == {0, 85, 90, 100}

\* the combination types a caller passes
CombinationTypes == {"intra_category", "cross_category", "test_type"}

\* the i-th point of the list
CreatePoint(i, novelty, confidence) ==
    [title |-> "P" \o ToString(i), description |-> <<"p", ToString(i)>>,
     category |-> "X", impact |-> "i", methodology |-> "m",
     novelty_score |-> novelty, confidence |-> confidence]

\* the caller builds the list of points
StageCreatePoint(novelty, confidence) ==
    /\ pc = "create_stage"
    /\ Len(all_innovations) < MaxCreatePoints
    /\ all_innovations' =
           Append(all_innovations, CreatePoint(Len(all_innovations) + 1, novelty, confidence))
    /\ UNCHANGED <<others, pc, innovations_list, topic, config, provider_behaviour, combined_ideas,
                   ai_generated_ideas, ideas_before, all_ideas, filtered_ideas, result, raised>>

\* idea = generator._create_combination_idea(innovations, combination_type)
CreateDirect(type) ==
    /\ pc = "create_stage"
    /\ combination_arg' = type
    /\ created_idea' = create_combination_idea(all_innovations, Str(<<type>>))
    /\ pc' = "create_done"
    /\ UNCHANGED <<context, beyond, engine>>

InitCreate == pc = "create_stage" /\ Blank

NextCreate ==
    \/ \E novelty \in NoveltyLevels, confidence \in ConfidenceLevels :
           StageCreatePoint(novelty, confidence)
    \/ \E type \in CombinationTypes : CreateDirect(type)

SpecCreate == InitCreate /\ [][NextCreate]_vars

\* ------------------------------ _generate_ai_ideas over a long list of points

\* points passed to a direct call of _generate_ai_ideas
MaxContextPoints == 22

\* what the provider of such a call may do
ContextBehaviours == {Raises, Returns(<<TXT>>), Returns(ObjectText(<<ElementFull>>))}

\* the caller builds the list of points
StageContextPoint ==
    /\ pc = "stage"
    /\ Len(all_innovations) < MaxContextPoints
    /\ all_innovations' =
           Append(all_innovations,
                  CombPoint(Len(all_innovations) + 1,
                            IF Len(all_innovations) % 3 = 0 THEN "X" ELSE "Y"))
    /\ UNCHANGED <<others, pc, innovations_list, topic, config, provider_behaviour,
                   combined_ideas, ai_generated_ideas, ideas_before, all_ideas, filtered_ideas,
                   result, raised>>

NextContext ==
    \/ StageContextPoint
    \/ \E o, a, d \in BOOLEAN : Construct(o, a, d)
    \/ \E b \in ContextBehaviours : AiDirect(b)

SpecContext == Init /\ [][NextContext]_vars

\* ------------------------------------------ the extractor's ingestion
\* src/src/extractor/innovation_extractor.py

\* elements of the innovations array of an ingested text
MaxIngestElements == 3

\* an element of the innovations array with two scores
InnovationElement(name, novelty, confidence) ==
    [title |-> Str(<<name>>),
     description |-> Str(<<"description">>),
     category |-> Str(<<"X">>),
     impact |-> Absent,
     methodology |-> Absent,
     novelty_score |-> novelty,
     confidence |-> confidence]

\* scores in range, no score at all, a novelty above 1, a confidence below
\* 0, a novelty that is a word
IngestElementPool ==
    {InnovationElement("Full", Num(80), Num(90)),
     InnovationElement("Bare", Absent, Absent),
     InnovationElement("High", Num(170), Num(90)),
     InnovationElement("Low", Num(80), Num(-20)),
     InnovationElement("Bad", Str(<<"high">>), Num(90))}

\* float(v) as an InnovationPoint score: [ok, val]
to_point_score(v) ==
    [ok |-> to_float(v).ok, val |-> to_float(v).val \div (IdeaUnit \div PointScale)]

\* InnovationPoint(...) of one element of the array: [ok, point]
point_of_element(innovation_data) ==
    LET n == to_point_score(dict_get(innovation_data, "novelty_score", Num(PointScale \div 2)))
        c == to_point_score(dict_get(innovation_data, "confidence", Num(PointScale \div 2)))
    IN  [ok |-> n.ok /\ c.ok,
         point |-> [title |-> dict_get(innovation_data, "title", Str(<<>>)),
                    description |-> dict_get(innovation_data, "description", Str(<<>>)),
                    category |-> dict_get(innovation_data, "category", Str(<<>>)),
                    impact |-> dict_get(innovation_data, "impact", Str(<<>>)),
                    methodology |-> dict_get(innovation_data, "methodology", Str(<<>>)),
                    novelty_score |-> n.val,
                    confidence |-> c.val]]

\* the loop over data.get('innovations', []) and the object built from it;
\* None when an exception is caught
innovations_of_data(data, title, id) ==
    LET array == dict_get(data, "innovations", List(<<>>))
        made == [i \in 1..Len(array.l) |-> point_of_element(array.l[i])]
    IN  IF \E i \in 1..Len(made) : ~made[i].ok
        THEN None
        ELSE [paper_title |-> title, paper_id |-> id,
              innovations |-> [i \in 1..Len(made) |-> made[i].point],
              summary |-> Str(<<>>)]

\* _parse_extraction_result, lines 131-176
parse_extraction_result(result_text, paper_title) ==
    LET json_start == find_lbrace(result_text)
        json_end == rfind_rbrace_end(result_text)
        parsed == json_loads(SubSeq(result_text, json_start, json_end))
    IN  IF json_start = 0 \/ json_end = 0
        THEN None
        ELSE IF ~parsed.ok
             THEN None
             ELSE innovations_of_data(parsed.data, Str(<<paper_title>>), Str(<<>>))

\* load_innovations, lines 216-255: json.load of the whole file
load_innovations(file_text) ==
    LET parsed == json_loads(file_text)
    IN  IF ~parsed.ok
        THEN None
        ELSE innovations_of_data(parsed.data, Str(<<>>), Str(<<>>))

\* the text holds one more element
StageInnovation(element) ==
    /\ pc = "ingest_stage"
    /\ Len(staged_elements) < MaxIngestElements
    /\ provider_behaviour' =
           Returns(<<LBRACE, INNOVATIONS_MEMBER(Append(staged_elements, element)), RBRACE>>)
    /\ UNCHANGED <<others, pc, innovations_list, topic, config, locals, result, raised>>

\* the text an ingestion is given
ingest_text == <<LBRACE, INNOVATIONS_MEMBER(staged_elements), RBRACE>>

\* extractor._parse_extraction_result(result_text, paper_title): the text is
\* a reply that holds the object between other words
ParseExtraction ==
    /\ pc = "ingest_stage"
    /\ provider_behaviour' = Returns(<<TXT>> \o ingest_text \o <<TXT>>)
    /\ extracted' = parse_extraction_result(<<TXT>> \o ingest_text \o <<TXT>>, "paper")
    /\ pc' = "parsed"
    /\ UNCHANGED <<direct, context, saved, concurrent, api, innovations_list, topic, config,
                   locals, result, raised>>

\* extractor.load_innovations(input_path): the text is the file
LoadInnovations ==
    /\ pc = "ingest_stage"
    /\ provider_behaviour' = Returns(ingest_text)
    /\ extracted' = load_innovations(ingest_text)
    /\ pc' = "loaded"
    /\ UNCHANGED <<direct, context, saved, concurrent, api, innovations_list, topic, config,
                   locals, result, raised>>

InitIngest == pc = "ingest_stage" /\ Blank

NextIngest ==
    \/ \E element \in IngestElementPool : StageInnovation(element)
    \/ ParseExtraction
    \/ LoadInnovations

SpecIngest == InitIngest /\ [][NextIngest]_vars

\* --------------------------------------------------- save_generation_result

\* mutant: the scores are written with one decimal
json_number_rounded(score) ==
    Dec(((score * (DecimalUnit \div IdeaUnit) + DecimalUnit \div 20)
             \div (DecimalUnit \div 10)) * (DecimalUnit \div 10))

\* a float as json.dump writes it: the shortest decimal that reads back as
\* the same float
json_number(score) == Dec(score * (DecimalUnit \div IdeaUnit))

\* the dict of lines 413-423 for one idea, as json.dump writes it
idea_json(idea) ==
    [title |-> json_encode(idea.title),
     description |-> json_encode(idea.description),
     source_innovations |-> json_encode(idea.source_innovations),
     combination_type |-> json_encode(idea.combination_type),
     feasibility_score |-> json_number(idea.feasibility_score),
     novelty_score |-> json_number(idea.novelty_score),
     impact_potential |-> json_number(idea.impact_potential),
     implementation_path |-> json_encode(idea.implementation_path),
     research_directions |-> json_encode(idea.research_directions)]

\* save_generation_result: [written, text]. The members of the object are
\* topic, generated_ideas, analysis_summary and generation_metadata; for
\* what is no IdeaGenerationResult the attribute access raises inside the
\* try and nothing is written.
save_generation_result(generation_result) ==
    IF generation_result.t # "IdeaGenerationResult"
    THEN [written |-> FALSE, text |-> <<>>]
    ELSE [written |-> TRUE,
          text |-> <<LBRACE, OTHER_MEMBER,
                     IDEAS_MEMBER([i \in 1..Len(generation_result.generated_ideas) |->
                                      idea_json(generation_result.generated_ideas[i])]),
                     OTHER_MEMBER, OTHER_MEMBER, RBRACE>>]

\* ideas of a result handed to save_generation_result
MaxSavedIdeas == 3

\* an idea whose texts hold quotes and backslashes
QuotedIdea ==
    [title |-> Str(<<"A ", QUOTE, "new", QUOTE, " idea">>),
     description |-> Str(<<"C:", BACKSLASH, "path", BACKSLASH, QUOTE>>),
     source_innovations |-> List(<<Str(<<BACKSLASH, BACKSLASH>>), Str(<<"Algorithm A">>)>>),
     combination_type |-> Str(<<"ai_generated">>),
     feasibility_score |-> 33 * (IdeaUnit \div PointScale),
     novelty_score |-> 102 * (IdeaUnit \div PointScale),
     impact_potential |-> 27000,
     implementation_path |-> None,
     research_directions |-> List(<<>>)]

\* the ideas a result may hold: made by the combination pass and ranked,
\* parsed from a provider's reply with and without defaults, built by hand
SavedIdeaPool ==
    {rescore(create_combination_idea(<<PointA, PointB>>, Str(<<"cross_category">>))),
     rescore(create_combination_idea(<<PointB, PointC>>, Str(<<"cross_category">>))),
     idea_of_element(ElementFull).idea,
     rescore(idea_of_element(ElementTie).idea),
     QuotedIdea}

StageSavedIdea(idea) ==
    /\ pc = "save_stage"
    /\ Len(filtered_ideas) < MaxSavedIdeas
    /\ filtered_ideas' = Append(filtered_ideas, idea)
    /\ UNCHANGED <<pc, others, innovations_list, topic, config, provider_behaviour,
                   all_innovations, combined_ideas, ai_generated_ideas, ideas_before,
                   all_ideas, result, raised>>

\* the caller builds the result of lines 89-98, or holds the None of line 75,
\* and saves it
SaveResult(has_result) ==
    /\ pc = "save_stage"
    /\ result' = IF has_result
                 THEN [t |-> "IdeaGenerationResult",
                       topic |-> topic,
                       generated_ideas |-> filtered_ideas,
                       analysis_summary |-> Str(<<"summary">>),
                       generation_metadata |->
                           [total_innovations |-> 0, total_papers |-> 0,
                            generation_method |-> "combination_and_ai"]]
                 ELSE None
    /\ saved_text' = IF save_generation_result(result').written
                     THEN save_generation_result(result').text
                     ELSE Pending
    /\ pc' = "saved"
    /\ UNCHANGED <<direct, context, ingest, concurrent, api, loaded_ideas, innovations_list,
                   topic, config, provider_behaviour, locals, raised>>

\* the file is read back and handed to the engine's payload parser
ParseSaved ==
    /\ pc = "saved"
    /\ saved_text # Pending
    /\ loaded_ideas' = parse_ai_generation_result(saved_text)
    /\ pc' = "reloaded"
    /\ UNCHANGED <<direct, context, ingest, concurrent, api, saved_text, engine>>

InitSave == pc = "save_stage" /\ Blank

NextSave ==
    \/ \E idea \in SavedIdeaPool : StageSavedIdea(idea)
    \/ \E has_result \in BOOLEAN : SaveResult(has_result)
    \/ ParseSaved

SpecSave == InitSave /\ [][NextSave]_vars

\* ------------------------- generate, invoked concurrently on one IdeaGenerator

\* invocations of generate in flight on the one generator
MaxCalls == 2

\* the collections a caller may pass
InputLists ==
    {<<Paper(1, <<>>)>>,
     <<Paper(1, <<PointA>>)>>,
     <<Paper(1, <<PointA, PointB>>), Paper(2, <<PointC>>)>>}

\* what a provider may do for one of the invocations
ConcurrentBehaviours == {Raises, Returns(ObjectText(<<ElementFull>>))}

\* a caller enters generate_ideas_from_innovations with its own arguments;
\* the frame holds the locals of this invocation. overlap records whether
\* another invocation was running at that moment.
StartCall(papers, t) ==
    /\ pc = "ready"
    /\ Len(calls) < MaxCalls
    /\ calls' = Append(calls,
                       [pc |-> "collect", innovations_list |-> papers, topic |-> t,
                        overlap |-> \E c \in 1..Len(calls) : calls[c].pc # "done",
                        provider_behaviour |-> NotCalled, all_innovations |-> <<>>,
                        combined_ideas |-> <<>>, ai_generated_ideas |-> <<>>,
                        filtered_ideas |-> <<>>, result |-> Pending, raised |-> ""])
    /\ UNCHANGED <<pc, engine, direct, context, ingest, saved, api>>

\* mutant: the flattened list is kept on the generator (self.all_innovations),
\* where every invocation in flight reads it
CallCollectOnSelf(c) ==
    /\ c \in 1..Len(calls)
    /\ calls[c].pc = "collect"
    /\ calls' = [k \in 1..Len(calls) |->
                    IF k = c
                    THEN [calls[k] EXCEPT
                             !.all_innovations =
                                 Flatten([i \in 1..Len(calls[c].innovations_list) |->
                                             calls[c].innovations_list[i].innovations]),
                             !.pc = "guard"]
                    ELSE IF calls[k].pc # "done"
                         THEN [calls[k] EXCEPT
                                  !.all_innovations =
                                      Flatten([i \in 1..Len(calls[c].innovations_list) |->
                                                  calls[c].innovations_list[i].innovations])]
                         ELSE calls[k]]
    /\ UNCHANGED <<pc, engine, direct, context, ingest, saved, api>>

\* lines 68-71 of invocation c
CallCollect(c) ==
    /\ c \in 1..Len(calls)
    /\ calls[c].pc = "collect"
    /\ calls' = [calls EXCEPT
                    ![c].all_innovations =
                        Flatten([i \in 1..Len(calls[c].innovations_list) |->
                                    calls[c].innovations_list[i].innovations]),
                    ![c].pc = "guard"]
    /\ UNCHANGED <<pc, engine, direct, context, ingest, saved, api>>

\* lines 73-75 of invocation c
CallGuard(c) ==
    /\ c \in 1..Len(calls)
    /\ calls[c].pc = "guard"
    /\ calls' = IF calls[c].all_innovations = <<>>
                THEN [calls EXCEPT ![c].result = None, ![c].pc = "done"]
                ELSE [calls EXCEPT ![c].pc = "combine"]
    /\ UNCHANGED <<pc, engine, direct, context, ingest, saved, api>>

\* line 78 of invocation c
CallCombine(c) ==
    /\ c \in 1..Len(calls)
    /\ calls[c].pc = "combine"
    /\ calls' = [calls EXCEPT
                    ![c].combined_ideas = generate_combination_ideas(calls[c].all_innovations),
                    ![c].pc = "ai"]
    /\ UNCHANGED <<pc, engine, direct, context, ingest, saved, api>>

\* line 81 of invocation c: reads self.openai_client, self.anthropic_client
\* and the settings
CallAiIdeas(c) ==
    /\ c \in 1..Len(calls)
    /\ calls[c].pc = "ai"
    /\ \E b \in (IF provider_called(openai_client, anthropic_client, deepseek_key) = "none"
                 THEN {NotCalled} ELSE ConcurrentBehaviours) :
           calls' = [calls EXCEPT
                        ![c].provider_behaviour = b,
                        ![c].ai_generated_ideas =
                            generate_ai_ideas(openai_client, anthropic_client, deepseek_key, b),
                        ![c].pc = "merge"]
    /\ UNCHANGED <<pc, engine, direct, context, ingest, saved, api>>

\* lines 84-87 of invocation c
CallMerge(c) ==
    /\ c \in 1..Len(calls)
    /\ calls[c].pc = "merge"
    /\ calls' = [calls EXCEPT
                    ![c].filtered_ideas =
                        filter_and_rank_ideas(calls[c].combined_ideas
                                                  \o calls[c].ai_generated_ideas),
                    ![c].combined_ideas =
                        [i \in 1..Len(calls[c].combined_ideas) |->
                            rescore(calls[c].combined_ideas[i])],
                    ![c].ai_generated_ideas =
                        [i \in 1..Len(calls[c].ai_generated_ideas) |->
                            rescore(calls[c].ai_generated_ideas[i])],
                    ![c].pc = "summarize"]
    /\ UNCHANGED <<pc, engine, direct, context, ingest, saved, api>>

\* lines 89-98 of invocation c
CallSummarize(c) ==
    /\ c \in 1..Len(calls)
    /\ calls[c].pc = "summarize"
    /\ LET s == generate_analysis_summary(calls[c].all_innovations, calls[c].filtered_ideas)
       IN  calls' =
               IF s.raised # ""
               THEN [calls EXCEPT ![c].raised = s.raised, ![c].pc = "done"]
               ELSE [calls EXCEPT
                        ![c].result =
                            [t |-> "IdeaGenerationResult",
                             topic |-> calls[c].topic,
                             generated_ideas |-> calls[c].filtered_ideas,
                             analysis_summary |-> s.summary,
                             generation_metadata |->
                                 [total_innovations |-> Len(calls[c].all_innovations),
                                  total_papers |-> Len(calls[c].innovations_list),
                                  generation_method |-> "combination_and_ai"]],
                        ![c].pc = "done"]
    /\ UNCHANGED <<pc, engine, direct, context, ingest, saved, api>>

\* the one generator is built with every provider configured, the one
\* configuration that calls a provider, or with none
NextConcurrent ==
    \/ \E o \in BOOLEAN : Construct(o, o, o)
    \/ \E papers \in InputLists, t \in Topics : StartCall(papers, t)
    \/ \E c \in 1..MaxCalls :
           \/ CallCollect(c)
           \/ CallGuard(c)
           \/ CallCombine(c)
           \/ CallAiIdeas(c)
           \/ CallMerge(c)
           \/ CallSummarize(c)

SpecConcurrent == Init /\ [][NextConcurrent]_vars

\* ------------------------------------------------------- the HTTP API (app.py)

\* requests the server takes
MaxRequests == 3
\* seconds the wall clock advances
MaxClock == 2

\* the endpoints that open a session
SessionKinds == {"search", "generate"}
\* how the task in the thread pool ends: with a value, with the {"error": ...}
\* dict of generate_task, or with an exception
TaskOutcomes == {"ok", "error", "exception"}

\* f"session_{datetime.now().strftime('%Y%m%d_%H%M%S')}": the time to the second
session_id_at(now) == now

\* d[key] = value on a dict
dict_set(d, key, value) ==
    [k \in DOMAIN d \cup {key} |-> IF k = key THEN value ELSE d[k]]

\* datetime.now() moves on by a second
Tick ==
    /\ pc = "serving"
    /\ clock < MaxClock
    /\ clock' = clock + 1
    /\ UNCHANGED <<pc, engine, direct, context, ingest, saved, concurrent, session_storage,
                   requests>>

\* a handler starts: it names its session and awaits its task in the pool
\* (search_papers 180-190, generate_innovations 228-302)
BeginRequest(kind, query) ==
    /\ pc = "serving"
    /\ Len(requests) < MaxRequests
    /\ requests' = Append(requests,
                          [kind |-> kind, query |-> query,
                           session_id |-> session_id_at(clock),
                           pc |-> "awaiting", status |-> 0, success |-> FALSE,
                           stored |-> Pending])
    /\ UNCHANGED <<pc, engine, direct, context, ingest, saved, concurrent, session_storage,
                   clock>>

\* the task of request r has ended and the handler runs on to its response:
\* an exception gives status 500 (220-221, 325-326), the error dict of
\* generate a response without success (304-309), and a value is stored
\* under the session id (207-211, 312-316) and answered with success
EndRequest(r, outcome) ==
    /\ pc = "serving"
    /\ r \in 1..Len(requests)
    /\ requests[r].pc = "awaiting"
    /\ outcome = "error" => requests[r].kind = "generate"
    /\ LET data == [query |-> requests[r].query,
                    member |-> IF requests[r].kind = "search" THEN "papers" ELSE "results",
                    created_at |-> clock]
       IN  CASE outcome = "exception" ->
                    /\ requests' = [requests EXCEPT ![r].pc = "responded", ![r].status = 500]
                    /\ UNCHANGED session_storage
             [] outcome = "error" ->
                    /\ requests' = [requests EXCEPT ![r].pc = "responded", ![r].status = 200]
                    /\ UNCHANGED session_storage
             [] OTHER ->
                    /\ session_storage' = dict_set(session_storage, requests[r].session_id, data)
                    /\ requests' = [requests EXCEPT ![r].pc = "responded", ![r].status = 200,
                                                    ![r].success = TRUE, ![r].stored = data]
    /\ UNCHANGED <<pc, engine, direct, context, ingest, saved, concurrent, clock>>

\* get_results: 404 for a session that is not stored, else its data
GetResults(sid) ==
    /\ pc = "serving"
    /\ Len(requests) < MaxRequests
    /\ requests' = Append(requests,
                          [kind |-> "results", query |-> "", session_id |-> sid,
                           pc |-> "responded",
                           status |-> IF sid \in DOMAIN session_storage THEN 200 ELSE 404,
                           success |-> FALSE,
                           stored |-> IF sid \in DOMAIN session_storage
                                      THEN session_storage[sid] ELSE Pending])
    /\ UNCHANGED <<pc, engine, direct, context, ingest, saved, concurrent, session_storage,
                   clock>>

InitApi == pc = "serving" /\ Blank

NextApi ==
    \/ Tick
    \/ \E kind \in SessionKinds, query \in Topics : BeginRequest(kind, query)
    \/ \E r \in 1..MaxRequests, outcome \in TaskOutcomes : EndRequest(r, outcome)
    \/ \E sid \in 0..MaxClock : GetResults(sid)

SpecApi == InitApi /\ [][NextApi]_vars

\* ================================================================== claims

\* generate has returned or raised
Done == pc = "done"
\* generate returned an IdeaGenerationResult
Returned == Done /\ raised = "" /\ result # None /\ result # Pending

\* the ideas of a list with one combination type
OfType(ideas, combination_type) ==
    SelectSeq(ideas, LAMBDA x : x.combination_type = Str(<<combination_type>>))
\* the titles an idea names as its sources
Sources(idea) == [i \in 1..Len(idea.source_innovations.l) |-> idea.source_innovations.l[i].s[1]]

\* C1 (as claimed): when the papers hold at least one innovation point,
\* generate returns an IdeaGenerationResult: it neither returns None nor raises.
C1_NonEmptyReturnsResult == (Done /\ staged_points # <<>>) => Returned

\* C2: when the papers hold no innovation point (no paper at all, or only
\* papers with an empty innovations list), generate returns None.
C2_EmptyReturnsNone == (Done /\ staged_points = <<>>) => (result = None /\ raised = "")

\* a call with a paper and no point has returned None
C2_Witness ==
    /\ Done
    /\ innovations_list # <<>>
    /\ staged_points = <<>>
    /\ result = None

\* the scenario of the spec: papers [A, B] and [C], topic "ml", no external idea
Scenario ==
    /\ Done
    /\ innovations_list = <<Paper(1, <<PointA, PointB>>), Paper(2, <<PointC>>)>>
    /\ topic = "ml"
    /\ ai_generated_ideas = <<>>

\* C3 (as claimed): the scenario gives exactly 2 ideas, one intra_category
\* and one cross_category.
C3_ScenarioTwoIdeas ==
    Scenario =>
        /\ Returned
        /\ Len(result.generated_ideas) = 2
        /\ Len(OfType(result.generated_ideas, "intra_category")) = 1
        /\ Len(OfType(result.generated_ideas, "cross_category")) = 1

\* C3 (amended): the scenario gives exactly 3 ideas: the intra_category idea
\* of A and B, and the two cross_category ideas of A and C and of B and C.
C3_ScenarioThreeIdeas ==
    Scenario =>
        /\ Returned
        /\ Len(result.generated_ideas) = 3
        /\ {Sources(x) : x \in Range(OfType(result.generated_ideas, "intra_category"))}
               = {<<"A", "B">>}
        /\ {Sources(x) : x \in Range(OfType(result.generated_ideas, "cross_category"))}
               = {<<"A", "C">>, <<"B", "C">>}
        /\ Len(OfType(result.generated_ideas, "cross_category")) = 2

\* the scenario has run and returned its ideas
C3_Witness == Scenario /\ Returned /\ Len(result.generated_ideas) > 0

\* the merge step has run
Merged == pc = "summarize"

\* the minimum of two numbers
Min(a, b) == IF a < b THEN a ELSE b

\* C4: every idea the merge step returns has impact_potential equal to the
\* mean of its novelty_score and its feasibility_score, whatever impact it
\* had before.
C4_ImpactIsMean ==
    Merged =>
        \A i \in 1..Len(filtered_ideas) :
            2 * filtered_ideas[i].impact_potential
                = filtered_ideas[i].novelty_score + filtered_ideas[i].feasibility_score

\* an idea that came with another impact is among the ranked ideas
C4_Witness ==
    /\ Merged
    /\ \E i \in 1..Len(ideas_before), j \in 1..Len(filtered_ideas) :
           /\ ideas_before[i].title = filtered_ideas[j].title
           /\ 2 * ideas_before[i].impact_potential
                  # ideas_before[i].novelty_score + ideas_before[i].feasibility_score

\* the place of an idea in the concatenation: deterministic ideas, then external ones
ConcatPos(x) ==
    IF \E k \in 1..Len(combined_ideas) : combined_ideas[k].title = x.title
    THEN CHOOSE k \in 1..Len(combined_ideas) : combined_ideas[k].title = x.title
    ELSE Len(combined_ideas)
             + (CHOOSE k \in 1..Len(ai_generated_ideas) : ai_generated_ideas[k].title = x.title)

\* C5: the returned list is sorted non-increasing by impact_potential, and
\* ideas of equal impact keep the order of the concatenation (deterministic
\* before external, each in its own order).
C5_SortedStable ==
    Merged =>
        \A i, j \in 1..Len(filtered_ideas) :
            i < j =>
                \/ filtered_ideas[i].impact_potential > filtered_ideas[j].impact_potential
                \/ /\ filtered_ideas[i].impact_potential = filtered_ideas[j].impact_potential
                   /\ ConcatPos(filtered_ideas[i]) < ConcatPos(filtered_ideas[j])

\* a deterministic and an external idea of equal impact are both returned,
\* next to ideas of other impacts
C5_Witness ==
    /\ Merged
    /\ \E i, j, k \in 1..Len(filtered_ideas) :
           /\ filtered_ideas[i].impact_potential = filtered_ideas[j].impact_potential
           /\ filtered_ideas[i].title \in {combined_ideas[n].title : n \in 1..Len(combined_ideas)}
           /\ filtered_ideas[j].title
                  \in {ai_generated_ideas[n].title : n \in 1..Len(ai_generated_ideas)}
           /\ filtered_ideas[k].impact_potential # filtered_ideas[i].impact_potential

\* C6: the merge step returns min(n, 20) of the n ideas it is given.
C6_AtMostTwenty ==
    Merged =>
        Len(filtered_ideas)
            = Min(Len(combined_ideas) + Len(ai_generated_ideas), 20)

\* 25 ideas of equal score went in and 20 came out
C6_Witness ==
    /\ Merged
    /\ Len(ideas_before) = 25
    /\ \A i \in 1..Len(ideas_before) :
           ideas_before[i].novelty_score + ideas_before[i].feasibility_score = IdeaUnit
    /\ Len(filtered_ideas) = 20

\* _generate_combination_ideas has returned from a direct call
Combined == pc = "comb_done"

\* the titles of the points of a category, in input order
GroupTitles(c) ==
    LET g == SelectSeq(all_innovations, LAMBDA p : p.category = c)
    IN  [i \in 1..Len(g) |-> g[i].title]

\* the intra_category ideas made of the points of category c, in output order
IntraOf(c) ==
    LET titles == Range(GroupTitles(c))
    IN  SelectSeq(OfType(combined_ideas, "intra_category"),
                  LAMBDA x : Sources(x)[1] \in titles)

\* the place of the pair (i, j), i < j, among the pairs of n elements in the
\* order of itertools.combinations
PairRank(n, i, j) == (i - 1) * n - (i * (i - 1)) \div 2 + (j - i)

CrossOf(c1, c2) ==
    LET titles1 == Range(GroupTitles(c1))
        titles2 == Range(GroupTitles(c2))
    IN  SelectSeq(OfType(combined_ideas, "cross_category"),
                  LAMBDA x : Sources(x)[1] \in titles1 /\ Sources(x)[2] \in titles2)

\* where a category is first seen in the input; 0 if it is not
FirstSeen(c) ==
    IF \E i \in 1..Len(all_innovations) : all_innovations[i].category = c
    THEN CHOOSE i \in 1..Len(all_innovations) :
             /\ all_innovations[i].category = c
             /\ \A k \in 1..(i - 1) : all_innovations[k].category # c
    ELSE 0

\* C8: two categories of n1 and n2 points give min(n1,3) * min(n2,3)
\* cross_category ideas, each of one of the first 3 points of the category
\* seen first with one of the first 3 points of the other, each such pair
\* once; no other cross_category idea is made.
C8_CrossFirstThree ==
    Combined =>
        /\ \A c1, c2 \in CombCategories :
               (c1 # c2 /\ FirstSeen(c1) # 0 /\ FirstSeen(c1) < FirstSeen(c2)) =>
                   LET first1 == Range(Take(GroupTitles(c1), 3))
                       first2 == Range(Take(GroupTitles(c2), 3))
                       made == CrossOf(c1, c2)
                   IN  /\ Len(made) = Min(Len(GroupTitles(c1)), 3) * Min(Len(GroupTitles(c2)), 3)
                       /\ {Sources(x) : x \in Range(made)} = first1 \X first2
                       /\ CrossOf(c2, c1) = <<>>
        /\ LET first == [c \in CombCategories |-> Range(Take(GroupTitles(c), 3))]
           IN  \A x \in Range(OfType(combined_ideas, "cross_category")) :
                   \E c1, c2 \in CombCategories :
                       /\ c1 # c2
                       /\ Sources(x)[1] \in first[c1]
                       /\ Sources(x)[2] \in first[c2]

\* two categories of 4 points each have given their 9 ideas
C8_Witness ==
    /\ Combined
    /\ \E c1, c2 \in CombCategories :
           /\ c1 # c2
           /\ Len(GroupTitles(c1)) >= 4
           /\ Len(GroupTitles(c2)) >= 4
           /\ Len(CrossOf(c1, c2)) = 9

\* a text without a "{", without a "}", or with no JSON object between them
Unparseable(text) ==
    \/ find_lbrace(text) = 0
    \/ rfind_rbrace_end(text) = 0
    \/ ~json_loads(SubSeq(text, find_lbrace(text), rfind_rbrace_end(text))).ok

\* the external source gave nothing: no provider is configured, or the
\* provider raised, or its text holds no JSON object
ExternalFailed ==
    \/ ~openai_client /\ ~anthropic_client /\ ~deepseek_key
    \/ provider_behaviour = Raises
    \/ /\ provider_behaviour # NotCalled
       /\ ~provider_behaviour.raises
       /\ Unparseable(provider_behaviour.text)

\* C9 (as claimed): when the external source gives nothing, generate raises
\* nothing and returns exactly the ranked deterministic ideas.
C9_ExternalFailureIsNotFatal ==
    (Done /\ staged_points # <<>> /\ ExternalFailed) =>
        /\ ai_generated_ideas = <<>>
        /\ Returned
        /\ result.generated_ideas
               = filter_and_rank_ideas(generate_combination_ideas(all_innovations))

\* _generate_ai_ideas has returned from a direct call
AiDone == pc = "ai_done"

\* the provider returned a JSON object with a generated_ideas array
WellFormedReply ==
    /\ ~provider_behaviour.raises
    /\ \E a \in ElementArrays(MaxAiIdeas) : provider_behaviour.text = ObjectText(a)

\* C10 (as claimed): with a provider configured and a well-formed reply of k
\* elements, _generate_ai_ideas returns k ideas with the fields of the payload.
C10_ConfiguredProviderIdeas ==
    (AiDone /\ (openai_client \/ anthropic_client \/ deepseek_key) /\ WellFormedReply) =>
        LET a == provider_behaviour.text[2].v
        IN  /\ Len(ai_generated_ideas) = Len(a)
            /\ \A i \in 1..Len(a) :
                   /\ ai_generated_ideas[i].title = a[i].title
                   /\ ai_generated_ideas[i].combination_type
                          = dict_get(a[i], "combination_type", Str(<<"ai_generated">>))
                   /\ ai_generated_ideas[i].feasibility_score
                          = a[i].feasibility_score.n * (IdeaUnit \div PointScale)

\* _parse_ai_generation_result has returned from a direct call
ParseDone == pc = "parse_done"

\* the three score fields of an element
ScoreFields == {"feasibility_score", "novelty_score", "impact_potential"}
\* the fields of an element that are copied as they are
CopiedFields == {"title", "description", "source_innovations", "implementation_path",
                 "research_directions"}

\* a JSON value float() takes: a number, or a string that reads as one
Numeric(v) == v.t \in {"num", "numstr"}

\* the default of a field that is copied as it is
EmptyOf(field) ==
    IF field \in {"source_innovations", "research_directions"} THEN List(<<>>) ELSE Str(<<>>)

\* C11 (as claimed): every element of the array yields an idea, in order; a
\* score field that is missing or no number is 0.5 in that idea, and a score
\* that is a number has the payload's value.
C11_IllTypedFieldDefaulted ==
    ParseDone =>
        /\ raised = ""
        /\ Len(ai_generated_ideas) = Len(staged_elements)
        /\ \A i \in 1..Len(staged_elements) : \A f \in ScoreFields :
               ai_generated_ideas[i][f]
                   = IF Numeric(staged_elements[i][f])
                     THEN staged_elements[i][f].n * (IdeaUnit \div PointScale)
                     ELSE IdeaUnit \div 2

\* every score the payload gives is a number
ScoresNumeric ==
    \A i \in 1..Len(staged_elements) : \A f \in ScoreFields :
        staged_elements[i][f] = Absent \/ Numeric(staged_elements[i][f])

C13_EmptyIdeasSummarized ==
    (Done /\ all_innovations # <<>> /\ filtered_ideas = <<>>) =>
        /\ raised = ""
        /\ Returned
        /\ result.generated_ideas = <<>>
        /\ result.analysis_summary.ideas = 0

\* C14: a result that is returned carries the topic of the call, the number
\* of innovation points over all the papers as total_innovations, and the
\* number of papers, those without a point included, as total_papers.
C14_MetadataCounts ==
    Returned =>
        /\ result.topic = topic
        /\ result.generation_metadata.total_innovations
               = SumOver(innovations_list,
                         [e \in Range(innovations_list) |-> Len(e.innovations)])
        /\ result.generation_metadata.total_papers = Len(innovations_list)

\* a call with a paper without points and a paper with points has returned
C14_Witness ==
    /\ Returned
    /\ Len(innovations_list) = 2
    /\ \E i \in 1..2 : innovations_list[i].innovations = <<>>
    /\ result.generation_metadata.total_innovations >= 2
    /\ result.generation_metadata.total_papers = 2

\* _create_combination_idea has returned from a direct call
CreateDone == pc = "create_done"
\* ... from a direct call with a pair
PairCreated == CreateDone /\ Len(all_innovations) = 2

\* a score of an idea lies in [0, 1]
InUnit(score) == 0 <= score /\ score <= IdeaUnit

\* C15 (as claimed): the idea of two points with scores in [0, 1] has its
\* feasibility_score, novelty_score and impact_potential in [0, 1].
C15_PairScoresInUnit ==
    PairCreated =>
        /\ InUnit(created_idea.feasibility_score)
        /\ InUnit(created_idea.novelty_score)
        /\ InUnit(created_idea.impact_potential)

C18_FewerThanTwoIsNone ==
    CreateDone =>
        /\ raised = ""
        /\ Len(all_innovations) < 2 => created_idea = None
        /\ Len(all_innovations) >= 2 =>
               /\ created_idea # None
               /\ Len(Sources(created_idea)) = Len(all_innovations)

\* a call with a single point has returned None
C18_Witness ==
    /\ CreateDone
    /\ Len(all_innovations) = 1
    /\ created_idea = None

\* the categories of the points passed to a direct call
CategoriesUsed == {all_innovations[i].category : i \in 1..Len(all_innovations)}

CategoryOf(title) ==
    (CHOOSE p \in Range(all_innovations) : p.title = title).category

\* C20: there is a cross_category idea exactly when the points span at least
\* 2 categories; every such idea pairs a category with one first seen later,
\* and the ideas come in the order of the category pairs (i, j), i < j, over
\* the first-seen order of the categories.
C20_CrossOverCategoryPairs ==
    Combined =>
        LET cross == OfType(combined_ideas, "cross_category")
            first == [k \in 1..Len(cross) |-> FirstSeen(CategoryOf(Sources(cross[k])[1]))]
            second == [k \in 1..Len(cross) |-> FirstSeen(CategoryOf(Sources(cross[k])[2]))]
        IN  /\ Len(cross) > 0 <=> Cardinality(CategoriesUsed) >= 2
            /\ \A k \in 1..Len(cross) : first[k] < second[k]
            /\ \A k \in 1..(Len(cross) - 1) :
                   \/ first[k] < first[k + 1]
                   \/ first[k] = first[k + 1] /\ second[k] <= second[k + 1]
            /\ \A c1, c2 \in CategoriesUsed :
                   FirstSeen(c1) < FirstSeen(c2) => CrossOf(c1, c2) # <<>>

\* three categories, seen in turns (X, Y, X, Z, Y), have given the ideas of
\* their three pairs
C20_Witness ==
    /\ Combined
    /\ Len(all_innovations) = 5
    /\ [i \in 1..5 |-> all_innovations[i].category] = <<"X", "Y", "X", "Z", "Y">>
    /\ Len(CrossOf("X", "Y")) = 4
    /\ Len(CrossOf("X", "Z")) = 2
    /\ Len(CrossOf("Y", "Z")) = 2

\* generate has flattened its input
Collected == pc \in {"guard", "combine", "ai", "merge", "summarize", "done"}

\* the number of points in the papers before the i-th
PointsBefore(i) ==
    SumOver(SubSeq(innovations_list, 1, i - 1),
            [e \in Range(innovations_list) |-> Len(e.innovations)])

\* C21: the flattened list holds the points in paper order, then inner order;
\* the categories of the grouping are those of the points, each once, in
\* first-seen order; every point is once in the group of its category and in
\* no other group; a group keeps the input order; no point gives no category.
C21_GroupingIsOrderedPartition ==
    Collected =>
        LET names == category_names(all_innovations)
            used == {all_innovations[i].category : i \in 1..Len(all_innovations)}
            place(p) == CHOOSE i \in 1..Len(all_innovations) : all_innovations[i] = p
        IN  /\ Len(all_innovations) = PointsBefore(Len(innovations_list) + 1)
            /\ \A i \in 1..Len(innovations_list) :
                   \A j \in 1..Len(innovations_list[i].innovations) :
                       all_innovations[PointsBefore(i) + j] = innovations_list[i].innovations[j]
            /\ Range(names) = used
            /\ Len(names) = Cardinality(used)
            /\ \A k, l \in 1..Len(names) :
                   k < l => FirstSeen(names[k]) < FirstSeen(names[l])
            /\ \A c \in used :
                   LET group == category_group(all_innovations, c)
                   IN  /\ \A p \in Range(all_innovations) :
                              Cardinality({k \in 1..Len(group) : group[k] = p})
                                  = IF p.category = c THEN 1 ELSE 0
                       /\ \A k, l \in 1..Len(group) :
                              k < l => place(group[k]) < place(group[l])
            /\ all_innovations = <<>> => names = <<>>

\* the points C, A of one paper and B of the next have been grouped: Y is
\* seen before X, and the group of X spans the two papers
C21_Witness ==
    /\ pc = "ai"
    /\ Len(innovations_list) = 2
    /\ all_innovations = <<PointC, PointA, PointB>>
    /\ category_names(all_innovations) = <<"Y", "X">>
    /\ category_group(all_innovations, "X") = <<PointA, PointB>>

\* a point reduced to its title, description, category and novelty_score
Reduced(p) ==
    [title |-> p.title, description |-> p.description, category |-> p.category,
     novelty_score |-> p.novelty_score]

\* C22: when a provider is called, the prompt it gets is built from at most
\* 20 points: the first min(n, 20) points of the list in order, each reduced
\* to title, description, category and novelty_score.
C22_ContextIsFirstTwenty ==
    (AiDone /\ prompt_sent # Pending) =>
        LET n == Len(all_innovations)
        IN  /\ Len(innovations_data) = Min(n, 20)
            /\ \A i \in 1..Len(innovations_data) :
                   innovations_data[i] = Reduced(all_innovations[i])
            /\ Len(prompt_sent.innovations_text) = Min(n, 20)
            /\ \A i \in 1..Len(prompt_sent.innovations_text) :
                   LET line == prompt_sent.innovations_text[i]
                       p == all_innovations[i]
                   IN  /\ line[2] = p.title
                       /\ SubSeq(line, 4, 3 + Len(p.description)) = p.description
                       /\ line[Len(line) - 3] = p.category
                       /\ line[Len(line) - 1] = p.novelty_score

\* a provider was called for a list of 22 points and got the first 20
C22_Witness ==
    /\ AiDone
    /\ Len(all_innovations) = 22
    /\ prompt_sent # Pending
    /\ Len(prompt_sent.innovations_text) = 20
    /\ prompt_sent.innovations_text[20][2] = all_innovations[20].title

\* an ingestion has returned
Ingested == pc \in {"parsed", "loaded"}

\* the elements of the text that was ingested
IngestedElements ==
    LET text == provider_behaviour.text
    IN  text[CHOOSE i \in 1..Len(text) : text[i].k = "innovations"].v

\* C23 (as claimed): every InnovationPoint that _parse_extraction_result or
\* load_innovations builds has novelty_score and confidence in [0, 1], and
\* 0.5 where the score is missing.
C23_IngestedScoresInUnit ==
    (Ingested /\ extracted # None) =>
        \A i \in 1..Len(extracted.innovations) :
            LET p == extracted.innovations[i]
                e == IngestedElements[i]
            IN  /\ 0 <= p.novelty_score /\ p.novelty_score <= PointScale
                /\ 0 <= p.confidence /\ p.confidence <= PointScale
                /\ e.novelty_score = Absent => p.novelty_score = PointScale \div 2
                /\ e.confidence = Absent => p.confidence = PointScale \div 2

\* what generate gives for the arguments of an invocation when it runs alone,
\* with the reply the provider gave that invocation
Alone(call) ==
    LET innovations ==
            Flatten([i \in 1..Len(call.innovations_list) |->
                        call.innovations_list[i].innovations])
        ideas ==
            filter_and_rank_ideas(
                generate_combination_ideas(innovations)
                    \o generate_ai_ideas(openai_client, anthropic_client, deepseek_key,
                                         call.provider_behaviour))
        s == generate_analysis_summary(innovations, ideas)
    IN  IF innovations = <<>>
        THEN [result |-> None, raised |-> ""]
        ELSE IF s.raised # ""
             THEN [result |-> Pending, raised |-> s.raised]
             ELSE [result |-> [t |-> "IdeaGenerationResult",
                               topic |-> call.topic,
                               generated_ideas |-> ideas,
                               analysis_summary |-> s.summary,
                               generation_metadata |->
                                   [total_innovations |-> Len(innovations),
                                    total_papers |-> Len(call.innovations_list),
                                    generation_method |-> "combination_and_ai"]],
                   raised |-> ""]

\* C24: whatever the interleaving of the invocations on one generator, an
\* invocation that has finished has the outcome (result or exception) that
\* its own arguments give when generate runs alone.
C24_ConcurrentCallsIndependent ==
    \A c \in 1..Len(calls) :
        calls[c].pc = "done" =>
            /\ calls[c].result = Alone(calls[c]).result
            /\ calls[c].raised = Alone(calls[c]).raised

\* two invocations with different arguments, the second entered while the
\* first was running, have both returned a result, each its own
C24_Witness ==
    /\ Len(calls) = 2
    /\ calls[2].overlap
    /\ \A c \in 1..2 : calls[c].pc = "done" /\ calls[c].raised = ""
    /\ calls[1].innovations_list # calls[2].innovations_list
    /\ calls[1].result.t = "IdeaGenerationResult"
    /\ calls[2].result.t = "IdeaGenerationResult"
    /\ calls[1].result.generated_ideas # calls[2].result.generated_ideas

Reloaded == pc = "reloaded"

\* C25: the ideas parsed back from the text save_generation_result wrote are
\* the ideas of the result: as many, in the same order, each with the same
\* three scores and the same text and list fields.
C25_SaveParseRoundTrip ==
    Reloaded =>
        /\ Len(loaded_ideas) = Len(result.generated_ideas)
        /\ \A i \in 1..Len(loaded_ideas) :
               \A f \in ScoreFields \cup CopiedFields \cup {"combination_type"} :
                   loaded_ideas[i][f] = result.generated_ideas[i][f]

\* three ideas were saved and read back, among them one with quotes and
\* backslashes in its texts and one whose scores are no round hundredths
C25_Witness ==
    /\ Reloaded
    /\ Len(loaded_ideas) = MaxSavedIdeas
    /\ \E i \in 1..Len(loaded_ideas) : loaded_ideas[i] = QuotedIdea
    /\ \E i \in 1..Len(loaded_ideas) : loaded_ideas[i].impact_potential % 4000 # 0
    /\ \E i \in 1..Len(saved_text[3].v) :
           \E j \in 1..Len(saved_text[3].v[i].title.s) :
               saved_text[3].v[i].title.s[j] = BACKSLASH

\* the steps of generate, each with the step that follows it
StepOrder ==
    {<<"collect", "guard">>, <<"guard", "combine">>, <<"guard", "done">>,
     <<"combine", "ai">>, <<"ai", "merge">>, <<"merge", "summarize">>,
     <<"summarize", "done">>}

\* what one step of generate may do
StepInOrder ==
    /\ (pc \in {"collect", "guard", "combine", "ai", "merge", "summarize"} /\ pc' # pc)
           => <<pc, pc'>> \in StepOrder
    /\ pc = "guard" => (pc' = "done" <=> all_innovations = <<>>)
    /\ pc' = "guard" => pc = "collect"
    /\ pc' = "ai" => pc = "combine"
    /\ (combined_ideas' # combined_ideas /\ pc # "merge") => pc = "combine"
    /\ (provider_behaviour' # provider_behaviour \/ prompt_sent' # prompt_sent)
           => (pc = "ai" /\ pc' = "merge")
    /\ pc = "done" => pc' = "done"

\* C26: inside generate every step leads to the next one of collect, guard,
\* combination, external generation, merge, summarize, never back; the guard
\* ends the call exactly when nothing was collected, so that on empty input
\* neither the combination pass nor the external source runs; the
\* combination pass produces its ideas only in its own step; and the
\* external source is reached only in the step after it.
C26_StepsInFixedOrder ==
    /\ [][StepInOrder]_vars
    /\ [](pc = "done" /\ all_innovations = <<>>
              => /\ result = None
                 /\ combined_ideas = <<>>
                 /\ ai_generated_ideas = <<>>
                 /\ provider_behaviour = NotCalled
                 /\ prompt_sent = Pending)

\* a call with papers that hold no point has ended, with every provider
\* configured, and neither generator ran
C26_Witness ==
    /\ pc = "done"
    /\ innovations_list # <<>>
    /\ all_innovations = <<>>
    /\ openai_client /\ anthropic_client /\ deepseek_key
    /\ result = None
    /\ combined_ideas = <<>>
    /\ provider_behaviour = NotCalled

\* C27 (as claimed): the branch _generate_ai_ideas takes calls into a provider
\* that is configured, and with any provider configured a provider is called.
C27_DispatchCallsConfigured ==
    AiDone =>
        LET branch == ai_dispatch(openai_client, anthropic_client, deepseek_key)
        IN  /\ branch = "openai" => openai_client
            /\ branch = "anthropic" => anthropic_client
            /\ branch = "deepseek" => deepseek_key
            /\ (openai_client \/ anthropic_client \/ deepseek_key)
                   => provider_called(openai_client, anthropic_client, deepseek_key) # "none"

\* the combination pass of generate has run
CombinationRun == pc \in {"ai", "merge", "summarize"}

\* C28: every idea of the combination pass names exactly two sources, two
\* different points of the input; the two share their category for an
\* intra_category idea and differ in it for a cross_category idea; no
\* cross_category idea stands before an intra_category idea.
C28_PairsOfDistinctPoints ==
    CombinationRun =>
        /\ \A k \in 1..Len(combined_ideas) :
               LET x == combined_ideas[k]
                   s == Sources(x)
               IN  /\ Len(s) = 2
                   /\ s[1] # s[2]
                   /\ \A i \in 1..2 : \E p \in Range(all_innovations) : p.title = s[i]
                   /\ x.combination_type
                          \in {Str(<<"intra_category">>), Str(<<"cross_category">>)}
                   /\ x.combination_type = Str(<<"intra_category">>)
                          <=> CategoryOf(s[1]) = CategoryOf(s[2])
        /\ \A k, l \in 1..Len(combined_ideas) :
               (/\ combined_ideas[k].combination_type = Str(<<"cross_category">>)
                /\ combined_ideas[l].combination_type = Str(<<"intra_category">>)) => l < k

\* the pass has made ideas of both kinds
C28_Witness ==
    /\ CombinationRun
    /\ OfType(combined_ideas, "intra_category") # <<>>
    /\ OfType(combined_ideas, "cross_category") # <<>>

\* how often a value stands in a sequence
Count(seq, v) == Cardinality({i \in 1..Len(seq) : seq[i] = v})

\* the ideas handed to the merge step, as its in-place rescoring left them
MergeInput == combined_ideas \o ai_generated_ideas

\* C29: the merge step returns ideas it was given, none more often than it
\* was given, all of them when they are at most 20; an idea it dropped has no
\* higher recomputed impact_potential than any idea it kept.
C29_TopPrefixOfInput ==
    Merged =>
        LET given == [i \in 1..Len(MergeInput) |-> Count(MergeInput, MergeInput[i])]
            kept == [i \in 1..Len(MergeInput) |-> Count(filtered_ideas, MergeInput[i])]
        IN  /\ \A k \in 1..Len(filtered_ideas) :
                   \E i \in 1..Len(MergeInput) : MergeInput[i] = filtered_ideas[k]
            /\ \A i \in 1..Len(MergeInput) : kept[i] <= given[i]
            /\ Len(MergeInput) <= RESULT_LIMIT =>
                   \A i \in 1..Len(MergeInput) : kept[i] = given[i]
            /\ \A i \in 1..Len(MergeInput) :
                   kept[i] < given[i] =>
                       \A k \in 1..Len(filtered_ideas) :
                           MergeInput[i].impact_potential <= filtered_ideas[k].impact_potential

\* of more than 20 ideas, one of the first 20 was dropped and one that came
\* after them was kept
C29_Witness ==
    /\ Merged
    /\ Len(MergeInput) > RESULT_LIMIT
    /\ \E i \in 1..RESULT_LIMIT : Count(filtered_ideas, MergeInput[i]) = 0
    /\ \E i \in (RESULT_LIMIT + 1)..Len(MergeInput) : Count(filtered_ideas, MergeInput[i]) > 0

\* the requests that were answered with success and a session id
Succeeded == {r \in 1..Len(requests) : requests[r].pc = "responded" /\ requests[r].success}

\* C30 (as claimed): the session id of every request answered with success
\* maps in session_storage to what that request stored, and every entry of
\* session_storage was stored by a request answered with success.
C30_SessionEntriesKept ==
    /\ \A r \in Succeeded :
           /\ requests[r].session_id \in DOMAIN session_storage
           /\ session_storage[requests[r].session_id] = requests[r].stored
    /\ \A sid \in DOMAIN session_storage :
           \E r \in Succeeded :
               requests[r].session_id = sid /\ requests[r].stored = session_storage[sid]

====
